---- MODULE Spec2Model ----
(***************************************************************************)
(* mediaForge backend: admission control (routes.rs, services/quota.rs),   *)
(* the job queue and its Status Store (services/queue.rs), the worker      *)
(* dispatch loop (services/worker.rs) and the persisted job records        *)
(* (db.rs).  One request handler per submission, one worker task, one      *)
(* redelivery task for the durable list.                                   *)
(***************************************************************************)
EXTENDS Integers, Sequences, FiniteSets, TLC

\* ------------------------------------------------------------------ bounds
\* Number of submissions (each submission owns one job id).
MaxReq == 2
\* Capacity of the local mpsc channel (Queue::new(buffer, ..)).
Buffer == 1
\* Number of rows of table jobs the quota queries are run against.
MaxRows == 2
\* largest lattice size a LUT_3D_SIZE directive of the small .cube files names
MaxLutSize == 3
\* most LUT_3D_SIZE lines in a .cube file
MaxDirs == 2

\* --------------------------------------------------- configuration (quotas)
\* config.rs QuotaConfig.  The daily ceilings are read from the environment
\* (defaults 10, 3 and 50) and are kept small here, as is the pro concurrency
\* ceiling (default 5); the free concurrency ceiling is the default.
FreeTierImageDaily == 1
FreeTierVideoDaily == 1
FreeTierConcurrent == 1
ProTierVideoDaily == 2
ProTierConcurrent == 2
\* the limit of every (tier, kind) pair without a configured ceiling: i64::MAX
\* in the code, the largest integer TLC represents here; no count reaches either
Unlimited == 2147483647

\* seconds of one UTC calendar day: date_naive().and_hms_opt(0, 0, 0) is the
\* last multiple of it
DaySecs == 86400

\* a match with an arm for one more job type
RoutesAndThumbnail == {"convert", "remove_bg", "color_grade", "thumbnail"}

\* ------------------------------------------------------------------- types
Ids == 1..MaxReq
NoJob == 0
Users == {"free"}
\* auth_user.tier of each user
Tier(u) == u
\* the three submission routes; their names are the job_type they store
Routes == {"convert", "remove_bg", "color_grade"}
\* JobMessages built outside the routes: job_type and job_id are any strings
DirectMsgs == {[job_type |-> "convert", valid_uuid |-> TRUE],
               [job_type |-> "unknown", valid_uuid |-> TRUE],
               [job_type |-> "convert", valid_uuid |-> FALSE]}
\* the JobMessages of the durable-list runs: a job_id that is no UUID
DurableMsgs == {[job_type |-> "convert", valid_uuid |-> FALSE]}

VARIABLES
  redis,      \* Queue.redis is Some(connection manager)
  capacity,   \* the buffer the channel was created with
  statuses,   \* Queue.statuses: job id -> JobStatus (absent = "None")
  chan,       \* the bounded mpsc channel between Queue.sender and the worker's rx
  rlist,      \* the durable list mediaforge:job_queue
  held,       \* the job the redelivery task popped and has not yet forwarded
  jobs,       \* table jobs of the repository: job id -> record (absent = NoRec)
  msg,        \* the JobMessage built for each submission
  req,        \* each request handler: its position, user and route
  nextId,     \* next unused submission / job id
  wpc,        \* position of the worker task in its loop
  cur,        \* the JobMessage the worker holds
  hi,         \* history: highest progress written as Processing, per job
  sawFull,    \* history: submissions whose channel send found the buffer full
  admitted,   \* history: submissions that passed check_quota and check_concurrent
  lock,       \* holder of the mutex around Queue.statuses ("free" when unlocked)
  now,        \* Utc::now() of the repository, in seconds
  rows,       \* the rows of table jobs that the quota queries read
  verdict,    \* the outcome of the last quota check
  eng,        \* the call of the transform engine in progress, with its result
  senders     \* some Queue handle (a Sender of the channel) still exists

\* the state of the quota queries
qvars == <<now, rows, verdict>>

vars == <<redis, capacity, statuses, chan, rlist, held, jobs, msg, req, nextId, wpc, cur, hi, sawFull, admitted, lock, qvars, eng, senders>>

\* JobStatus (queue.rs)
StNone == [st |-> "None", progress |-> 0]
Queued == [st |-> "Queued", progress |-> 0]
Processing(p) == [st |-> "Processing", progress |-> p]
Completed == [st |-> "Completed", progress |-> 0]
Failed == [st |-> "Failed", progress |-> 0]
Terminal == {"Completed", "Failed"}

\* Option<i32>
Absent == [some |-> FALSE, v |-> 0]
Given(v) == [some |-> TRUE, v |-> v]

\* the values of jobs.parameters: a key holds null (the route writes null for
\* an absent field), a value of another JSON type, or a string; "luts/broken.cube"
\* is a file from_cube rejects, "sepia" a preset apply_preset does not know
LutLocations == {"null", "number", "luts/good.cube", "luts/broken.cube"}
PresetNames == {"null", "number", "vintage", "cinematic", "bright", "sepia"}
Parameters ==
  [lut_location : LutLocations, preset : PresetNames,
   hue : {Absent, Given(15)}, saturation : {Absent, Given(-20)},
   brightness : {Absent, Given(30)}, contrast : {Absent, Given(0)}]

\* .and_then(|v| v.as_str()) is Some
IsStr(v) == v \notin {"null", "number"}

\* the parameters of a job that names no LUT, no preset and no adjustment
NoParameters ==
  [lut_location |-> "null", preset |-> "null", hue |-> Absent,
   saturation |-> Absent, brightness |-> Absent, contrast |-> Absent]

NoRec == [exists |-> FALSE, user |-> "", job_type |-> "", status |-> "",
          progress_percent |-> 0, priority |-> 0, has_result |-> FALSE, assets |-> 0,
          parameters |-> NoParameters]
\* no quota check in progress
NoVerdict == [op |-> "none", user |-> "", kind |-> "", count |-> 0, denied |-> FALSE]
\* no call of the transform engine is in progress
NoCall == [op |-> "none"]
NoMsg == [job_type |-> "", valid_uuid |-> TRUE]
NoReq == [pc |-> "unused", user |-> "", route |-> ""]

\* the tasks that lock Queue.statuses: a request handler inside enqueue, the
\* worker task, a caller of get_status
Unlocked == [task |-> "none", id |-> NoJob]
Handler(r) == [task |-> "enqueue", id |-> r]
WorkerTask == [task |-> "worker", id |-> NoJob]
Reader == [task |-> "get_status", id |-> NoJob]

\* the state after Queue::new(buffer, redis_url) and start_worker; mirror says
\* whether a connection manager was set up
Start(buffer, mirror) ==
  /\ redis = mirror
  /\ capacity = buffer
  /\ statuses = [j \in Ids |-> StNone]
  /\ chan = <<>>
  /\ rlist = <<>>
  /\ held = NoJob
  /\ jobs = [j \in Ids |-> NoRec]
  /\ msg = [j \in Ids |-> NoMsg]
  /\ req = [j \in Ids |-> NoReq]
  /\ nextId = 1
  /\ wpc = "recv"
  /\ cur = NoJob
  /\ hi = [j \in Ids |-> -1]
  /\ sawFull = {}
  /\ admitted = {}
  /\ lock = Unlocked
  /\ now = DaySecs - 1
  /\ rows = <<>>
  /\ verdict = NoVerdict
  /\ eng = NoCall
  /\ senders = TRUE

\* ------------------------------------------------------------ repository
\* db::Job::create: status 'queued', progress_percent 0; the routes pass
\* vec![asset_id], one media asset id
NewJob(u, jt, prio) ==
  [exists |-> TRUE, user |-> u, job_type |-> jt, status |-> "queued",
   progress_percent |-> 0, priority |-> prio, has_result |-> FALSE, assets |-> 1,
   parameters |-> NoParameters]

\* db::Job::get_user_jobs_today(user, Some(job_type)): every record of the model
\* is created within the current UTC day, so created_at >= today_start holds
GetUserJobsToday(u, jt) ==
  Cardinality({j \in Ids : jobs[j].exists /\ jobs[j].user = u /\ jobs[j].job_type = jt})

\* db::Job::get_active_jobs_count
GetActiveJobsCount(u) ==
  Cardinality({j \in Ids : jobs[j].exists /\ jobs[j].user = u
                            /\ jobs[j].status \in {"queued", "processing"}})

\* UPDATE ... WHERE id = $3 touches nothing when no row has that id
UpdateProgress(j, st, p) ==
  IF jobs[j].exists
    THEN [jobs EXCEPT ![j].status = st, ![j].progress_percent = p]
    ELSE jobs

JobComplete(j) ==
  IF jobs[j].exists
    THEN [jobs EXCEPT ![j].status = "completed", ![j].progress_percent = 100,
                      ![j].has_result = TRUE]
    ELSE jobs

\* a Job::fail that also sets progress_percent to 100
JobFailAtHundred(j) ==
  IF jobs[j].exists
    THEN [jobs EXCEPT ![j].status = "failed", ![j].progress_percent = 100]
    ELSE jobs

JobFail(j) ==
  IF jobs[j].exists THEN [jobs EXCEPT ![j].status = "failed"] ELSE jobs

\* ------------------------------------------------------ admission (quota.rs)
QuotaLimit(tier, kind) ==
  CASE tier = "free" /\ kind = "image" -> FreeTierImageDaily
    [] tier = "free" /\ kind = "video" -> FreeTierVideoDaily
    [] tier = "pro" /\ kind = "video" -> ProTierVideoDaily
    [] OTHER -> Unlimited

ConcurrentLimit(tier) ==
  CASE tier = "free" -> FreeTierConcurrent
    [] tier = "pro" -> ProTierConcurrent
    [] OTHER -> Unlimited

QuotaDeniesGt(count, limit) == count > limit

\* the comparison of services::quota::check_quota
QuotaDenies(count, limit) == count >= limit

\* services::quota::check_quota: TRUE = Err("Daily quota exceeded")
check_quota(u, kind) == QuotaDenies(GetUserJobsToday(u, kind), QuotaLimit(Tier(u), kind))

ConcurrentDeniesGt(active, limit) == active > limit

\* the comparison of services::quota::check_concurrent
ConcurrentDenies(active, limit) == active >= limit

\* services::quota::check_concurrent: TRUE = Err("Concurrent job limit exceeded")
check_concurrent(u) == ConcurrentDenies(GetActiveJobsCount(u), ConcurrentLimit(Tier(u)))

\* the job_kind each route hands to check_quota; color_grade calls no check
QuotaKind(route) == IF route = "convert" THEN "image" ELSE "video"
GatedRoutes == {"convert", "remove_bg"}

\* ------------------------------------- the quota queries against the clock
\* the instants the clock is read at: 23:59:59 of the first day, 00:00:00 and
\* 00:00:01 of the second, 23:59:59 of the second
Instants == {DaySecs - 1, DaySecs, DaySecs + 1, 2 * DaySecs - 1}
\* users of the quota checks, one per tier string ("team": no configured tier)
QuotaUsers == {"free", "pro", "team"}
\* job_kind values handed to check_quota; the job_type column holds any string
QuotaKinds == {"image", "video", "audio"}
RowTypes == {"image", "video"}

TodayStartRolling(t) == t - DaySecs + 1

\* Utc::now().date_naive().and_hms_opt(0, 0, 0)
TodayStart(t) == (t \div DaySecs) * DaySecs

\* SELECT COUNT(*) FROM jobs WHERE user_id = $1 AND job_type = $2 AND created_at >= $3
get_user_jobs_today(u, jt) ==
  Cardinality({i \in 1..Len(rows) : /\ rows[i].user = u
                                     /\ rows[i].job_type = jt
                                     /\ rows[i].created_at >= TodayStart(now)})

\* SELECT COUNT(*) FROM jobs WHERE user_id = $1 AND status IN ('queued', 'processing')
get_active_jobs_count(u) ==
  Cardinality({i \in 1..Len(rows) : /\ rows[i].user = u
                                     /\ rows[i].status \in {"queued", "processing"}})

\* everything but the state of the quota queries
svars == <<redis, capacity, statuses, chan, rlist, held, jobs, msg, req, nextId, wpc, cur, hi, sawFull, admitted, lock, eng, senders>>

\* the clock moves on between two requests
Advance(t) ==
  /\ verdict = NoVerdict
  /\ t > now
  /\ now' = t
  /\ UNCHANGED <<rows, verdict, svars>>

\* INSERT INTO jobs ..: created_at is the time of the insert, status 'queued'
InsertRow(u, jt) ==
  /\ verdict = NoVerdict
  /\ Len(rows) < MaxRows
  /\ rows' = Append(rows, [user |-> u, job_type |-> jt, created_at |-> now,
                            status |-> "queued"])
  /\ UNCHANGED <<now, verdict, svars>>

\* db::Job::complete on a row
FinishRow(i) ==
  /\ verdict = NoVerdict
  /\ i \in 1..Len(rows)
  /\ rows[i].status = "queued"
  /\ rows' = [rows EXCEPT ![i].status = "completed"]
  /\ UNCHANGED <<now, verdict, svars>>

\* services::quota::check_quota(db, config, user_id, tier, job_kind)
QuotaCheck(u, kind) ==
  /\ verdict = NoVerdict
  /\ verdict' = [op |-> "check_quota", user |-> u, kind |-> kind,
                  count |-> get_user_jobs_today(u, kind),
                  denied |-> QuotaDenies(get_user_jobs_today(u, kind),
                                         QuotaLimit(Tier(u), kind))]
  /\ UNCHANGED <<now, rows, svars>>

\* services::quota::check_concurrent(db, config, user_id, tier)
ConcurrentCheck(u) ==
  /\ verdict = NoVerdict
  /\ verdict' = [op |-> "check_concurrent", user |-> u, kind |-> "",
                  count |-> get_active_jobs_count(u),
                  denied |-> ConcurrentDenies(get_active_jobs_count(u),
                                              ConcurrentLimit(Tier(u)))]
  /\ UNCHANGED <<now, rows, svars>>

\* the check returned its Result to the caller
Return ==
  /\ verdict # NoVerdict
  /\ verdict' = NoVerdict
  /\ UNCHANGED <<now, rows, svars>>

\* ------------------------------------------------------- request handlers
SetPc(r, p) == [req EXCEPT ![r].pc = p]

\* A submission arrives at convert / remove_bg (the asset is the caller's:
\* verify_asset_ownership passed) and runs routes.rs check_quota, first half:
\* the daily quota
SubmitGated(u, route) ==
  /\ nextId <= MaxReq
  /\ req' = [req EXCEPT ![nextId] =
               [pc |-> IF check_quota(u, QuotaKind(route))
                         THEN "denied_quota" ELSE "check_concurrent",
                user |-> u, route |-> route]]
  /\ msg' = [msg EXCEPT ![nextId] = [job_type |-> route, valid_uuid |-> TRUE]]
  /\ nextId' = nextId + 1
  /\ UNCHANGED <<redis, capacity, statuses, chan, rlist, held, jobs, wpc, cur, hi, sawFull, admitted, lock, qvars, eng, senders>>

\* A submission arrives at color_grade, which goes from verify_asset_ownership
\* straight to db::Job::create
SubmitColorGrade(u) ==
  /\ nextId <= MaxReq
  /\ req' = [req EXCEPT ![nextId] =
               [pc |-> "mark_queued", user |-> u, route |-> "color_grade"]]
  /\ msg' = [msg EXCEPT ![nextId] = [job_type |-> "color_grade", valid_uuid |-> TRUE]]
  /\ jobs' = [jobs EXCEPT ![nextId] =
                NewJob(u, "color_grade", IF Tier(u) = "pro" THEN 10 ELSE 0)]
  /\ nextId' = nextId + 1
  /\ UNCHANGED <<redis, capacity, statuses, chan, rlist, held, wpc, cur, hi, sawFull, admitted, lock, qvars, eng, senders>>

CheckConcurrentRecorded(r) ==
  /\ req[r].pc = "check_concurrent"
  /\ IF check_concurrent(req[r].user)
       THEN /\ req' = SetPc(r, "denied_concurrent")
            /\ jobs' = [jobs EXCEPT ![r] = [NewJob(req[r].user, req[r].route, 0)
                                              EXCEPT !.status = "failed"]]
            /\ UNCHANGED admitted
       ELSE /\ req' = SetPc(r, "create")
            /\ admitted' = admitted \cup {r}
            /\ UNCHANGED jobs
  /\ UNCHANGED <<redis, capacity, statuses, chan, rlist, held, msg, nextId, wpc, cur, hi, sawFull, lock, qvars, eng, senders>>

\* routes.rs check_quota, second half: the concurrency limit
CheckConcurrent(r) ==
  /\ req[r].pc = "check_concurrent"
  /\ IF check_concurrent(req[r].user)
       THEN /\ req' = SetPc(r, "denied_concurrent")
            /\ UNCHANGED admitted
       ELSE /\ req' = SetPc(r, "create")
            /\ admitted' = admitted \cup {r}
  /\ UNCHANGED <<redis, capacity, statuses, chan, rlist, held, jobs, msg, nextId, wpc, cur, hi, sawFull, lock, qvars, eng, senders>>

CreateJobRechecked(r) ==
  /\ req[r].pc = "create"
  /\ IF check_concurrent(req[r].user)
       THEN /\ req' = SetPc(r, "denied_concurrent")
            /\ UNCHANGED jobs
       ELSE /\ jobs' = [jobs EXCEPT ![r] =
                          NewJob(req[r].user, req[r].route,
                                 IF Tier(req[r].user) = "pro" THEN 10 ELSE 0)]
            /\ req' = SetPc(r, "mark_queued")
  /\ UNCHANGED <<redis, capacity, statuses, chan, rlist, held, msg, nextId, wpc, cur, hi, sawFull, admitted, lock, qvars, eng, senders>>

\* db::Job::create with the route's job_type and the tier's priority
CreateJob(r) ==
  /\ req[r].pc = "create"
  /\ jobs' = [jobs EXCEPT ![r] =
                NewJob(req[r].user, req[r].route,
                       IF Tier(req[r].user) = "pro" THEN 10 ELSE 0)]
  /\ req' = SetPc(r, "mark_queued")
  /\ UNCHANGED <<redis, capacity, statuses, chan, rlist, held, msg, nextId, wpc, cur, hi, sawFull, admitted, lock, qvars, eng, senders>>

\* A caller hands Queue::enqueue the JobMessage of a job record that another
\* writer of table jobs stored with an empty media_asset_ids list
StoredEnqueue(u, jt) ==
  /\ nextId <= MaxReq
  /\ req' = [req EXCEPT ![nextId] = [pc |-> "mark_queued", user |-> u, route |-> "stored"]]
  /\ msg' = [msg EXCEPT ![nextId] = [job_type |-> jt, valid_uuid |-> TRUE]]
  /\ jobs' = [jobs EXCEPT ![nextId] = [NewJob(u, jt, 0) EXCEPT !.assets = 0]]
  /\ nextId' = nextId + 1
  /\ UNCHANGED <<redis, capacity, statuses, chan, rlist, held, wpc, cur, hi, sawFull, admitted, lock, qvars, eng, senders>>

\* A caller hands Queue::enqueue a JobMessage for which no job record was
\* created (as main.rs upload_handler / convert_handler do); job_id and
\* job_type are arbitrary strings (queue.rs JobMessage).
DirectEnqueue(m) ==
  /\ nextId <= MaxReq
  /\ req' = [req EXCEPT ![nextId] = [pc |-> "mark_queued", user |-> "", route |-> "direct"]]
  /\ msg' = [msg EXCEPT ![nextId] = m]
  /\ nextId' = nextId + 1
  /\ UNCHANGED <<redis, capacity, statuses, chan, rlist, held, jobs, wpc, cur, hi, sawFull, admitted, lock, qvars, eng, senders>>

\* ------------------------------------------------------- Queue (queue.rs)
CriticalKept(t) ==
  /\ lock \in {Unlocked, t}
  /\ lock' = t

\* one critical section: statuses.lock().await (unless the task took the lock
\* in an earlier step), the insert, and the release of the guard (drop(s) or
\* the end of its scope) before the task's next await
Critical(t) ==
  /\ lock \in {Unlocked, t}
  /\ lock' = Unlocked

\* s.insert(job_id, status) under the mutex
Insert(j, v) == [statuses EXCEPT ![j] = v]

\* the highest progress written so far as Processing
Seen(j, p) == [hi EXCEPT ![j] = IF p > @ THEN p ELSE @]

EnqueueMarkQueuedSkipped(r) ==
  /\ req[r].pc = "mark_queued"
  /\ Critical(Handler(r))
  /\ req' = SetPc(r, IF redis THEN "push" ELSE "send")
  /\ UNCHANGED <<redis, capacity, statuses, chan, rlist, held, jobs, msg, nextId, wpc, cur, hi, sawFull, admitted, qvars, eng, senders>>

\* Queue::enqueue, first step: mark queued, release the lock
EnqueueMarkQueued(r) ==
  /\ req[r].pc = "mark_queued"
  /\ Critical(Handler(r))
  /\ statuses' = Insert(r, Queued)
  /\ req' = SetPc(r, IF redis THEN "push" ELSE "send")
  /\ UNCHANGED <<redis, capacity, chan, rlist, held, jobs, msg, nextId, wpc, cur, hi, sawFull, admitted, qvars, eng, senders>>

EnqueuePushNoFallback(r, applied, ok) ==
  /\ req[r].pc = "push"
  /\ ok => applied
  /\ rlist' = IF applied THEN Append(rlist, r) ELSE rlist
  /\ req' = SetPc(r, "ok")
  /\ UNCHANGED <<redis, capacity, statuses, chan, held, jobs, msg, nextId, wpc, cur, hi, sawFull, admitted, lock, qvars, eng, senders>>

\* Queue::enqueue with a connection manager: RPUSH onto the durable list.
\* Ok(_) => Ok(()); Err => fall back to the local channel.  An error reply
\* (timeout, connection reset) says nothing about whether the server applied
\* the command: applied is the server's side, ok the client's.
EnqueuePush(r, applied, ok) ==
  /\ req[r].pc = "push"
  /\ ok => applied
  /\ rlist' = IF applied THEN Append(rlist, r) ELSE rlist
  /\ req' = SetPc(r, IF ok THEN "ok" ELSE "send")
  /\ UNCHANGED <<redis, capacity, statuses, chan, held, jobs, msg, nextId, wpc, cur, hi, sawFull, admitted, lock, qvars, eng, senders>>

\* the receiver of the channel is gone (the worker task ended): every send,
\* also a suspended one, returns Err
Closed == wpc = "panicked"

\* self.sender.send(job).await: completes when the channel has a free slot,
\* otherwise the caller is suspended until the receiver frees one; Err(()) when
\* the receiver is gone
EnqueueSend(r) ==
  /\ req[r].pc = "send"
  /\ IF Closed
       THEN /\ req' = SetPc(r, "err")
            /\ UNCHANGED <<chan, sawFull>>
       ELSE IF Len(chan) < capacity
         THEN /\ chan' = Append(chan, r)
              /\ req' = SetPc(r, "ok")
              /\ UNCHANGED sawFull
         ELSE /\ req' = SetPc(r, "send_wait")
              /\ sawFull' = sawFull \cup {r}
              /\ UNCHANGED chan
  /\ UNCHANGED <<redis, capacity, statuses, rlist, held, jobs, msg, nextId, wpc, cur, hi, admitted, lock, qvars, eng, senders>>

\* the suspended send is resumed once a slot is free, or with Err once the
\* receiver is gone
EnqueueSendResume(r) ==
  /\ req[r].pc = "send_wait"
  /\ IF Closed
       THEN /\ req' = SetPc(r, "err")
            /\ UNCHANGED chan
       ELSE /\ Len(chan) < capacity
            /\ chan' = Append(chan, r)
            /\ req' = SetPc(r, "ok")
  /\ UNCHANGED <<redis, capacity, statuses, rlist, held, jobs, msg, nextId, wpc, cur, hi, sawFull, admitted, lock, qvars, eng, senders>>

\* ------------------------------------------------ redelivery of the durable list
\* the redelivery task pops the head of the durable list (bounded wait)
RedeliverPop ==
  /\ redis
  /\ held = NoJob
  /\ rlist # <<>>
  /\ held' = Head(rlist)
  /\ rlist' = Tail(rlist)
  /\ UNCHANGED <<redis, capacity, statuses, chan, jobs, msg, req, nextId, wpc, cur, hi, sawFull, admitted, lock, qvars, eng, senders>>

ForwardToLocalDropped ==
  /\ held # NoJob
  /\ held' = NoJob
  /\ UNCHANGED <<redis, capacity, statuses, chan, rlist, jobs, msg, req, nextId, wpc, cur, hi, sawFull, admitted, lock, qvars, eng, senders>>

\* Queue::forward_to_local: self.sender.send(job).await
ForwardToLocal ==
  /\ held # NoJob
  /\ IF Closed
       THEN UNCHANGED chan
       ELSE /\ Len(chan) < capacity
            /\ chan' = Append(chan, held)
  /\ held' = NoJob
  /\ UNCHANGED <<redis, capacity, statuses, rlist, jobs, msg, req, nextId, wpc, cur, hi, sawFull, admitted, lock, qvars, eng, senders>>

\* ------------------------------------ colour grading modes (worker.rs:322-341)
\* ImageProcessor::color_grade(input, output, hue, saturation, brightness,
\* contrast): the adjustments made, or the image error of image::open
color_grade(readable, hue, saturation, brightness, contrast) ==
  IF readable
    THEN [res |-> "ok", hue |-> hue, saturation |-> saturation,
          brightness |-> brightness, contrast |-> contrast]
    ELSE [res |-> "err", msg |-> "Image load failed"]

\* a preset table that grades every unknown name as bright
ApplyAnyPreset(readable, preset) ==
  CASE preset = "vintage" ->
         color_grade(readable, Given(15), Given(-20), Given(-10), Given(10))
    [] preset = "cinematic" ->
         color_grade(readable, Given(-5), Given(10), Given(-15), Given(20))
    [] OTHER ->
         color_grade(readable, Given(0), Given(15), Given(30), Given(5))

\* ImageProcessor::apply_preset
apply_preset(readable, preset) ==
  CASE preset = "vintage" ->
         color_grade(readable, Given(15), Given(-20), Given(-10), Given(10))
    [] preset = "cinematic" ->
         color_grade(readable, Given(-5), Given(10), Given(-15), Given(20))
    [] preset = "bright" ->
         color_grade(readable, Given(0), Given(15), Given(30), Given(5))
    [] OTHER -> [res |-> "err", msg |-> "Unknown preset"]

\* ImageProcessor::apply_lut(input, output, lut_location): open the image, parse
\* the LUT with from_cube, apply it and save the result
apply_lut(readable, lut_location) ==
  IF ~readable
    THEN [res |-> "err", msg |-> "Image load failed"]
    ELSE IF lut_location = "luts/good.cube"
           THEN [res |-> "ok", lut |-> lut_location]
           ELSE [res |-> "err", msg |-> "Parse error"]

GradePresetFirst(parameters, readable) ==
  IF IsStr(parameters.preset)
    THEN [fn |-> "apply_preset", out |-> apply_preset(readable, parameters.preset)]
    ELSE IF IsStr(parameters.lut_location)
           THEN [fn |-> "apply_lut", out |-> apply_lut(readable, parameters.lut_location)]
           ELSE [fn |-> "color_grade",
                 out |-> color_grade(readable, parameters.hue, parameters.saturation,
                                     parameters.brightness, parameters.contrast)]

\* process_color_grade, the choice of the mode: the ImageProcessor function
\* called and its result
Grade(parameters, readable) ==
  IF IsStr(parameters.lut_location)
    THEN [fn |-> "apply_lut", out |-> apply_lut(readable, parameters.lut_location)]
    ELSE IF IsStr(parameters.preset)
           THEN [fn |-> "apply_preset", out |-> apply_preset(readable, parameters.preset)]
           ELSE [fn |-> "color_grade",
                 out |-> color_grade(readable, parameters.hue, parameters.saturation,
                                     parameters.brightness, parameters.contrast)]

\* ------------------------------------------------- worker (worker.rs)
\* first progress checkpoint of process_background_removal / process_conversion /
\* process_color_grade
FirstCheckpoint(jt) == IF jt = "convert" THEN 30 ELSE 20

\* update_progress(statuses, job_id, progress): lock, insert, unlock at the end
\* of the function
update_progress(j, p) ==
  /\ Critical(WorkerTask)
  /\ statuses' = Insert(j, Processing(p))
  /\ hi' = Seen(j, p)

\* the worker returns to rx.recv()
BackToRecv ==
  /\ wpc' = "recv"
  /\ cur' = NoJob

\* the position in the channel of a job of the highest persisted priority
Urgent(q) ==
  CHOOSE i \in 1..Len(q) :
    \A k \in 1..Len(q) :
      /\ jobs[q[k]].priority <= jobs[q[i]].priority
      /\ (jobs[q[k]].priority = jobs[q[i]].priority) => (i <= k)

RecvByPriority ==
  /\ wpc = "recv"
  /\ chan # <<>>
  /\ cur' = chan[Urgent(chan)]
  /\ chan' = SubSeq(chan, 1, Urgent(chan) - 1) \o SubSeq(chan, Urgent(chan) + 1, Len(chan))
  /\ wpc' = "mark"
  /\ UNCHANGED <<redis, capacity, statuses, rlist, held, jobs, msg, req, nextId, hi, sawFull, admitted, lock, qvars, eng, senders>>

\* while let Some(job) = rx.recv().await
Recv ==
  /\ wpc = "recv"
  /\ chan # <<>>
  /\ cur' = Head(chan)
  /\ chan' = Tail(chan)
  /\ wpc' = "mark"
  /\ UNCHANGED <<redis, capacity, statuses, rlist, held, jobs, msg, req, nextId, hi, sawFull, admitted, lock, qvars, eng, senders>>

\* s.insert(job_id, Processing{0}); then Uuid::parse_str(&job.job_id): on Err
\* the loop continues with the next job
MarkProcessing ==
  /\ wpc = "mark"
  /\ Critical(WorkerTask)
  /\ statuses' = Insert(cur, Processing(0))
  /\ hi' = Seen(cur, 0)
  /\ IF msg[cur].valid_uuid
       THEN /\ wpc' = "db_processing"
            /\ UNCHANGED cur
       ELSE BackToRecv
  /\ UNCHANGED <<redis, capacity, chan, rlist, held, jobs, msg, req, nextId, sawFull, admitted, qvars, eng, senders>>

\* db::Job::update_progress(pool, job_uuid, "processing", 0)
DbProcessing ==
  /\ wpc = "db_processing"
  /\ jobs' = UpdateProgress(cur, "processing", 0)
  /\ wpc' = "dispatch"
  /\ UNCHANGED <<redis, capacity, statuses, chan, rlist, held, msg, req, nextId, cur, hi, sawFull, admitted, lock, qvars, eng, senders>>

\* an Err(..) of process_* or of the match on job_type
Fail ==
  /\ wpc' = "write_failed"
  /\ UNCHANGED <<statuses, hi, lock>>

\* asset_ids[0] on an empty list: the index is out of bounds, the panic ends
\* the worker task and drops rx with the messages still buffered
Panic ==
  /\ wpc' = "panicked"
  /\ UNCHANGED <<statuses, hi, lock>>

\* process_background_removal returns Err("No assets in job") for an empty
\* list; process_conversion and process_color_grade index it unchecked
ChecksEmpty(jt) == jt = "remove_bg"

\* match job.job_type: an unknown type is Err("Unknown job type"); otherwise
\* the prologue of process_*: find the job record ("Job not found"), the asset
\* ids and the asset record (found says whether these reads succeed), then
\* update_progress(20 | 30)
Dispatch(found) ==
  /\ wpc = "dispatch"
  /\ IF msg[cur].job_type \in Routes /\ jobs[cur].exists /\ found
       THEN IF jobs[cur].assets = 0
              THEN IF ChecksEmpty(msg[cur].job_type) THEN Fail ELSE Panic
              ELSE /\ update_progress(cur, FirstCheckpoint(msg[cur].job_type))
                   /\ wpc' = "transform"
       ELSE Fail
  /\ UNCHANGED <<redis, capacity, chan, rlist, held, jobs, msg, req, nextId, cur, sawFull, admitted, qvars, eng, senders>>

\* the result of the ImageProcessor call of the job the worker holds; ok says
\* whether the input image can be read and the output written.  A color_grade
\* job fails as well when its LUT or preset is rejected
EngineOk(ok) ==
  IF msg[cur].job_type = "color_grade"
    THEN Grade(jobs[cur].parameters, ok).out.res = "ok"
    ELSE ok

\* the ImageProcessor call, then update_progress(80)
Transform(ok) ==
  /\ wpc = "transform"
  /\ IF EngineOk(ok)
       THEN /\ update_progress(cur, 80)
            /\ wpc' = "save"
       ELSE Fail
  /\ UNCHANGED <<redis, capacity, chan, rlist, held, jobs, msg, req, nextId, cur, sawFull, admitted, qvars, eng, senders>>

\* std::fs::read of the result and storage.save_bytes (ok says whether both
\* returned Ok), then update_progress(100) and Ok(result_location)
Save(ok) ==
  /\ wpc = "save"
  /\ IF ok
       THEN /\ update_progress(cur, 100)
            /\ wpc' = "write_completed"
       ELSE Fail
  /\ UNCHANGED <<redis, capacity, chan, rlist, held, jobs, msg, req, nextId, cur, sawFull, admitted, qvars, eng, senders>>

\* Ok(result_location) => s.insert(job_id, Completed{result_url})
WriteCompleted ==
  /\ wpc = "write_completed"
  /\ Critical(WorkerTask)
  /\ statuses' = Insert(cur, Completed)
  /\ wpc' = "db_complete"
  /\ UNCHANGED <<redis, capacity, chan, rlist, held, jobs, msg, req, nextId, cur, hi, sawFull, admitted, qvars, eng, senders>>

\* db::Job::complete(pool, job_uuid, &result_location)
DbComplete ==
  /\ wpc = "db_complete"
  /\ jobs' = JobComplete(cur)
  /\ BackToRecv
  /\ UNCHANGED <<redis, capacity, statuses, chan, rlist, held, msg, req, nextId, hi, sawFull, admitted, lock, qvars, eng, senders>>

\* Err(error) => s.insert(job_id, Failed{error})
WriteFailed ==
  /\ wpc = "write_failed"
  /\ Critical(WorkerTask)
  /\ statuses' = Insert(cur, Failed)
  /\ wpc' = "db_fail"
  /\ UNCHANGED <<redis, capacity, chan, rlist, held, jobs, msg, req, nextId, cur, hi, sawFull, admitted, qvars, eng, senders>>

\* db::Job::fail(pool, job_uuid, &error)
DbFail ==
  /\ wpc = "db_fail"
  /\ jobs' = JobFail(cur)
  /\ BackToRecv
  /\ UNCHANGED <<redis, capacity, statuses, chan, rlist, held, msg, req, nextId, hi, sawFull, admitted, lock, qvars, eng, senders>>

\* ------------------------------------------- the mutex around Queue.statuses
\* Queue::enqueue: let mut s = self.statuses.lock().await
EnqueueLock(r) ==
  /\ req[r].pc = "mark_queued"
  /\ lock = Unlocked
  /\ lock' = Handler(r)
  /\ UNCHANGED <<redis, capacity, statuses, chan, rlist, held, jobs, msg, req, nextId, wpc, cur, hi, sawFull, admitted, qvars, eng, senders>>

\* the positions at which the worker's next statement is statuses.lock().await
\* followed by the insert of Processing{0}, Completed or Failed
WorkerInserts == {"mark", "write_completed", "write_failed"}

\* start_worker: let mut s = statuses.lock().await
WorkerLock ==
  /\ wpc \in WorkerInserts
  /\ lock = Unlocked
  /\ lock' = WorkerTask
  /\ UNCHANGED <<redis, capacity, statuses, chan, rlist, held, jobs, msg, req, nextId, wpc, cur, hi, sawFull, admitted, qvars, eng, senders>>

\* Queue::get_status: let s = self.statuses.lock().await
GetStatusLock ==
  /\ lock = Unlocked
  /\ lock' = Reader
  /\ UNCHANGED <<redis, capacity, statuses, chan, rlist, held, jobs, msg, req, nextId, wpc, cur, hi, sawFull, admitted, qvars, eng, senders>>

\* Queue::get_status: s.get(job_id).cloned(), the guard dropped on return
GetStatus ==
  /\ lock = Reader
  /\ lock' = Unlocked
  /\ UNCHANGED <<redis, capacity, statuses, chan, rlist, held, jobs, msg, req, nextId, wpc, cur, hi, sawFull, admitted, qvars, eng, senders>>

\* ------------------------------------------------------------ specification
\* request handlers and the worker task
Handlers ==
  \/ \E r \in Ids : CheckConcurrent(r)
  \/ \E r \in Ids : CreateJob(r)
  \/ \E r \in Ids : EnqueueMarkQueued(r)
  \/ \E r \in Ids : EnqueueSend(r)
  \/ \E r \in Ids : EnqueueSendResume(r)

Worker ==
  \/ Recv
  \/ MarkProcessing
  \/ DbProcessing
  \/ \E found \in BOOLEAN : Dispatch(found)
  \/ \E ok \in BOOLEAN : Transform(ok)
  \/ \E ok \in BOOLEAN : Save(ok)
  \/ WriteCompleted
  \/ DbComplete
  \/ WriteFailed
  \/ DbFail

\* Queue::new(buffer, None): the in-memory queue
Init == Start(Buffer, FALSE)

Next ==
  \/ \E u \in Users, route \in GatedRoutes : SubmitGated(u, route)
  \/ \E u \in Users : SubmitColorGrade(u)
  \/ \E m \in DirectMsgs : DirectEnqueue(m)
  \/ Handlers
  \/ Worker

Spec == Init /\ [][Next]_vars

\* Queue::new(buffer, Some(url)) with a connection manager: the durable list
\* and its redelivery task
InitDurable == Start(Buffer, TRUE)

NextDurable ==
  \/ \E u \in Users : SubmitColorGrade(u)
  \/ \E m \in DurableMsgs : DirectEnqueue(m)
  \/ \E r \in Ids : EnqueueMarkQueued(r)
  \/ \E r \in Ids, applied, ok \in BOOLEAN : EnqueuePush(r, applied, ok)
  \/ \E r \in Ids : EnqueueSend(r)
  \/ \E r \in Ids : EnqueueSendResume(r)
  \/ RedeliverPop
  \/ ForwardToLocal
  \/ Worker

SpecDurable == InitDurable /\ [][NextDurable]_vars

\* the delivery of the jobs the routes enqueue, over the durable list and over
\* the fallback send
NextDelivery ==
  \/ \E u \in Users : SubmitColorGrade(u)
  \/ \E r \in Ids : EnqueueMarkQueued(r)
  \/ \E r \in Ids, applied, ok \in BOOLEAN : EnqueuePush(r, applied, ok)
  \/ \E r \in Ids : EnqueueSend(r)
  \/ \E r \in Ids : EnqueueSendResume(r)
  \/ RedeliverPop
  \/ ForwardToLocal
  \/ Worker

\* the worker task and the redelivery task are spawned tasks of the runtime:
\* each keeps running while it has a step to take
SpecDelivery ==
  /\ InitDurable
  /\ [][NextDelivery]_vars
  /\ WF_vars(Worker)
  /\ WF_vars(RedeliverPop)
  /\ WF_vars(ForwardToLocal)

\* the tasks that take the mutex, each lock().await a step of its own, with a
\* durable mirror so that enqueue reaches both its push and its send
InitLock == Start(Buffer, TRUE)

NextLock ==
  \/ \E u \in Users : SubmitColorGrade(u)
  \/ \E r \in Ids : EnqueueLock(r)
  \/ \E r \in Ids : EnqueueMarkQueued(r)
  \/ \E r \in Ids, applied, ok \in BOOLEAN : EnqueuePush(r, applied, ok)
  \/ \E r \in Ids : EnqueueSend(r)
  \/ \E r \in Ids : EnqueueSendResume(r)
  \/ RedeliverPop
  \/ ForwardToLocal
  \/ WorkerLock
  \/ Worker
  \/ GetStatusLock
  \/ GetStatus

SpecLock == InitLock /\ [][NextLock]_vars

\* the accounts of the dispatch runs, one per tier
Accounts == {"free", "pro"}

\* Queue::new(buffer, None) with room for every submission, so that jobs wait
\* behind one another and no send is suspended; the worker is fed every kind
\* of JobMessage and job record, past the admission checks
InitDispatch == Start(MaxReq, FALSE)

NextDispatch ==
  \/ \E u \in Accounts : SubmitColorGrade(u)
  \/ \E m \in DirectMsgs : DirectEnqueue(m)
  \/ \E u \in Users, jt \in GatedRoutes : StoredEnqueue(u, jt)
  \/ \E r \in Ids : EnqueueMarkQueued(r)
  \/ \E r \in Ids : EnqueueSend(r)
  \/ Worker

SpecDispatch == InitDispatch /\ [][NextDispatch]_vars

\* the quota checks against a jobs table and a clock
InitQuota == Start(Buffer, FALSE)

NextQuota ==
  \/ \E t \in Instants : Advance(t)
  \/ \E u \in QuotaUsers, jt \in RowTypes : InsertRow(u, jt)
  \/ \E i \in 1..MaxRows : FinishRow(i)
  \/ \E u \in QuotaUsers, kind \in QuotaKinds : QuotaCheck(u, kind)
  \/ \E u \in QuotaUsers : ConcurrentCheck(u)
  \/ Return

SpecQuota == InitQuota /\ [][NextQuota]_vars

\* ------------------------------------------------------ LUT parsing (lut.rs)
\* everything but the call of the transform engine
pvars == <<redis, capacity, statuses, chan, rlist, held, jobs, msg, req, nextId, wpc, cur, hi, sawFull, admitted, lock, qvars, senders>>

\* usize of the 64-bit build targets: eight bytes, written least significant
\* byte first
UsizeBytes == 8
Byte == 256

RECURSIVE ToBytes(_, _)
ToBytes(n, k) ==
  IF k = 0 THEN <<>> ELSE <<n % Byte>> \o ToBytes(n \div Byte, k - 1)

\* the usize with value n
Usize(n) == ToBytes(n, UsizeBytes)

\* byte p of the product of a and b before the carries: the sum of the byte
\* products a[i] * b[p - i]
RECURSIVE Conv(_, _, _, _)
Conv(a, b, p, i) ==
  IF i > p
    THEN 0
    ELSE (IF i < UsizeBytes /\ p - i < UsizeBytes
            THEN a[i + 1] * b[p - i + 1]
            ELSE 0) + Conv(a, b, p, i + 1)

RECURSIVE Carried(_, _, _, _)
Carried(a, b, p, carry) ==
  IF p = 2 * UsizeBytes
    THEN <<>>
    ELSE LET t == Conv(a, b, p, 0) + carry
         IN  <<t % Byte>> \o Carried(a, b, p + 1, t \div Byte)

\* the product of two usize in full, sixteen bytes
WideMul(a, b) == Carried(a, b, 0, 0)

\* the product does not fit a usize
Overflows(w) == \E i \in (UsizeBytes + 1)..(2 * UsizeBytes) : w[i] # 0

\* the bytes a wrapping multiplication keeps
Low(w) == SubSeq(w, 1, UsizeBytes)

\* the outcome of an arithmetic overflow in a build with overflow checks
Panicked == <<>>

\* a * b on usize: with overflow checks (debug profile) an overflow panics,
\* without them (release profile) the product wraps
Mul(a, b, checks) ==
  IF a = Panicked \/ b = Panicked
    THEN Panicked
    ELSE LET w == WideMul(a, b)
         IN  IF checks /\ Overflows(w) THEN Panicked ELSE Low(w)

\* a lattice size whose cube is a multiple of 2^64
BigSize == 2^22

\* the second token of a LUT_3D_SIZE line: missing (parts.len() < 2), one that
\* parse::<usize>() rejects, or a usize
Directives ==
  {[arg |-> "missing", n |-> 0], [arg |-> "bad", n |-> 0]}
    \cup {[arg |-> "usize", n |-> k] : k \in (0..MaxLutSize) \cup {BigSize}}

\* most lines of three numbers in a .cube file
MaxTriples == MaxLutSize * MaxLutSize * MaxLutSize + 1

\* sequences over S of length at most n
SeqsUpTo(S, n) == UNION {[1..k -> S] : k \in 0..n}

\* a .cube file: whether it can be opened and read, its LUT_3D_SIZE lines in
\* order and the number of its lines of three numbers; blank lines, comments
\* and other directives are skipped by the parser
CubeFiles ==
  [readable : BOOLEAN, dirs : SeqsUpTo(Directives, MaxDirs), triples : 0..MaxTriples]

\* Option<usize>
NoSize == [some |-> FALSE, n |-> 0]
SomeSize(k) == [some |-> TRUE, n |-> k]

\* the LUT_3D_SIZE branch of the line loop: a line with a second token sets
\* size to parse::<usize>().ok(), a line without one leaves it
RECURSIVE ParseDirs(_, _)
ParseDirs(dirs, size) ==
  IF dirs = <<>>
    THEN size
    ELSE ParseDirs(Tail(dirs),
                   CASE Head(dirs).arg = "missing" -> size
                     [] Head(dirs).arg = "usize" -> SomeSize(Head(dirs).n)
                     [] OTHER -> NoSize)

\* (expected as f64).cbrt().round() as usize: the integer nearest to the cube
\* root, (2r - 1)^3 <= 8 * expected < (2r + 1)^3
Root(expected) ==
  CHOOSE r \in 0..expected :
    /\ (2 * r - 1) * (2 * r - 1) * (2 * r - 1) <= 8 * expected
    /\ 8 * expected < (2 * r + 1) * (2 * r + 1) * (2 * r + 1)

InfersEmpty(root, expected) == root * root * root = expected

\* root * root * root == expected && expected > 0
Infers(root, expected) == root * root * root = expected /\ expected > 0

\* the results of from_cube
CubeIoError == [res |-> "io_error", msg |-> "", size |-> 0, entries |-> 0]
CubeParseError(m) == [res |-> "parse_error", msg |-> m, size |-> 0, entries |-> 0]
CubePanic == [res |-> "panic", msg |-> "", size |-> 0, entries |-> 0]
CubeOk(n, len) == [res |-> "ok", msg |-> "", size |-> n, entries |-> len]

\* let expected = size * size * size; values.len() != expected is the
\* count-mismatch error, otherwise every value is converted and the LUT built
CheckCount(n, count, checks) ==
  LET expected == Mul(Mul(Usize(n), Usize(n), checks), Usize(n), checks)
  IN  IF expected = Panicked
        THEN CubePanic
        ELSE IF Usize(count) # expected
               THEN CubeParseError("count_mismatch")
               ELSE CubeOk(n, count)

\* Lut3D::from_cube(path)
from_cube(file, checks) ==
  LET size == ParseDirs(file.dirs, NoSize)
      count == file.triples
      root == Root(count)
  IN  IF ~file.readable
        THEN CubeIoError
        ELSE IF size.some
               THEN CheckCount(size.n, count, checks)
               ELSE IF Infers(root, count)
                      THEN CheckCount(root, count, checks)
                      ELSE CubeParseError("cannot_infer")

\* a call of Lut3D::from_cube; checks says whether the build has overflow checks
FromCube(file, checks) ==
  /\ eng = NoCall
  /\ eng' = [op |-> "from_cube", file |-> file, checks |-> checks,
             out |-> from_cube(file, checks)]
  /\ UNCHANGED pvars

\* the engine call returned to its caller
EngineReturn ==
  /\ eng # NoCall
  /\ eng' = NoCall
  /\ UNCHANGED pvars

\* calls of the .cube parser
InitCube == Start(Buffer, FALSE)

NextCube ==
  \/ /\ eng = NoCall
     /\ \E file \in CubeFiles, checks \in BOOLEAN : FromCube(file, checks)
  \/ EngineReturn

SpecCube == InitCube /\ [][NextCube]_vars

\* -------------------------------------------------- LUT application (lut.rs)
\* an RGBA pixel is <<r, g, b, a>>; an image is its dimensions and its pixels
\* row by row
Images(P, dims) ==
  UNION {[w : {d[1]}, h : {d[2]}, px : [1..(d[1] * d[2]) -> P]] : d \in dims}

\* (c.clamp(0.0, 1.0) * 255.0) as u8 of the value num / den of a .cube line:
\* the product is truncated
ToU8(num, den) ==
  IF num <= 0 THEN 0 ELSE IF num >= den THEN 255 ELSE (255 * num) \div den

\* the .cube files the LUTs are parsed from: at lattice coordinate k of a
\* channel the identity file holds k / (size - 1), the inverted file
\* 1 - k / (size - 1), the doubled file 2k / (size - 1)
LutKinds == {"identity", "inverted", "doubled"}
CubeValue(kind, k, size) ==
  LET den == IF size > 1 THEN size - 1 ELSE 1
  IN  CASE kind = "identity" -> ToU8(k, den)
        [] kind = "inverted" -> ToU8(den - k, den)
        [] OTHER -> ToU8(2 * k, den)

\* the lattice sizes of the LUTs applied: no entry, one entry, and sizes whose
\* lattice points fall on 8-bit channel values
LutSizes == {0, 1, 2, 4, 6}

\* Lut3D { size, entries } as from_cube builds it from the file of a kind: len
\* is entries.len()
Lut3D(kind, size) == [kind |-> kind, size |-> size, len |-> size * size * size]

\* self.entries[i]: r fastest, then g, then b
Entry(lut, i) ==
  <<CubeValue(lut.kind, i % lut.size, lut.size),
    CubeValue(lut.kind, (i \div lut.size) % lut.size, lut.size),
    CubeValue(lut.kind, i \div (lut.size * lut.size), lut.size)>>

\* Lut3D::index
index(size, r, g, b) == r + g * size + b * size * size

LatticeShifted(c, size) == (c * (size - 1)) \div 256

\* let ri = r * (self.size - 1) / 255
Lattice(c, size) == (c * (size - 1)) \div 255

\* the pixel apply_to_image writes for a pixel p
LutPixel(lut, p) ==
  LET e == Entry(lut, index(lut.size, Lattice(p[1], lut.size),
                                  Lattice(p[2], lut.size), Lattice(p[3], lut.size)))
  IN  <<e[1], e[2], e[3], p[4]>>

\* Lut3D::apply_to_image.  With size 0, `self.size - 1` underflows: a build with
\* overflow checks panics there, one without wraps and then indexes the empty
\* entries out of bounds, which panics too
apply_to_image(lut, img) ==
  IF lut.size = 0
    THEN [res |-> "panic"]
    ELSE [res |-> "ok", w |-> img.w, h |-> img.h,
          px |-> [i \in 1..Len(img.px) |-> LutPixel(lut, img.px[i])]]

\* channel values on and next to the lattice points of the LUT sizes
Samples == {0, 51, 85, 86, 128, 170, 254, 255}
Alphas == {0, 200}
\* the images the LUTs are applied to: every sampled pixel alone, and wider and
\* taller images over three pixels
LutImages ==
  Images(Samples \X Samples \X Samples \X Alphas, {<<1, 1>>})
    \cup Images({<<0, 85, 255, 200>>, <<86, 128, 254, 0>>, <<255, 255, 255, 255>>},
                {<<2, 1>>, <<1, 2>>})

\* a call of Lut3D::apply_to_image
ApplyToImage(lut, img) ==
  /\ eng = NoCall
  /\ eng' = [op |-> "apply_to_image", lut |-> lut, img |-> img,
             out |-> apply_to_image(lut, img)]
  /\ UNCHANGED pvars

InitLut == Start(Buffer, FALSE)

NextLut ==
  \/ /\ eng = NoCall
     /\ \E kind \in LutKinds, size \in LutSizes, img \in LutImages :
          ApplyToImage(Lut3D(kind, size), img)
  \/ EngineReturn

SpecLut == InitLut /\ [][NextLut]_vars

\* ------------------------------------------- pixel operations (processing.rs)
\* img.get_pixel(x, y)
get_pixel(img, x, y) == img.px[y * img.w + x + 1]

CornerSum(img, ch) ==
  get_pixel(img, 0, 0)[ch] + get_pixel(img, img.w - 1, 0)[ch]
    + get_pixel(img, 0, img.h - 1)[ch] + get_pixel(img, img.w - 1, img.h - 1)[ch]

\* estimate_background_color, one channel: the u32 sum of the four corner
\* pixels divided by 4
Average(img, ch) ==
  (get_pixel(img, 0, 0)[ch] + get_pixel(img, img.w - 1, 0)[ch]
     + get_pixel(img, 0, img.h - 1)[ch]
     + get_pixel(img, img.w - 1, img.h - 1)[ch]) \div 4

\* a threshold test that also takes distance 50 as similar
SimilarOrAt(p, bg) ==
  (p[1] - bg[1]) * (p[1] - bg[1]) + (p[2] - bg[2]) * (p[2] - bg[2])
    + (p[3] - bg[3]) * (p[3] - bg[3]) <= 50 * 50

\* color_distance(pixel, bg) < 50.0: the square root of the sum of the squared
\* channel differences is below 50 exactly when the sum is below 2500
Similar(p, bg) ==
  (p[1] - bg[1]) * (p[1] - bg[1]) + (p[2] - bg[2]) * (p[2] - bg[2])
    + (p[3] - bg[3]) * (p[3] - bg[3]) < 50 * 50

\* ImageProcessor::simple_bg_removal
simple_bg_removal(img) ==
  LET bg == <<Average(img, 1), Average(img, 2), Average(img, 3)>>
  IN  [res |-> "ok", w |-> img.w, h |-> img.h,
       px |-> [i \in 1..Len(img.px) |->
                 <<img.px[i][1], img.px[i][2], img.px[i][3],
                   IF Similar(img.px[i], bg) THEN 0 ELSE 255>>]]

\* a composite that weighs the foreground with 1 - alpha
BlendInverted(fg, bg, a) == (fg * (255 - a) + bg * a) \div 255

\* ((fg as f32 * alpha) + (bg as f32 * (1.0 - alpha))) as u8 with
\* alpha = a as f32 / 255.0: exact for the alphas 0 and 255, the only ones
\* remove_background writes
Blend(fg, bg, a) == (fg * a + bg * (255 - a)) \div 255

\* ImageProcessor::replace_background: remove_background, then the result
\* composited over an image filled with Rgba([bg_color, 255])
replace_background(img, bg_color) ==
  LET transparent == simple_bg_removal(img)
  IN  [res |-> "ok", w |-> transparent.w, h |-> transparent.h,
       px |-> [i \in 1..Len(transparent.px) |->
                 <<Blend(transparent.px[i][1], bg_color[1], transparent.px[i][4]),
                   Blend(transparent.px[i][2], bg_color[2], transparent.px[i][4]),
                   Blend(transparent.px[i][3], bg_color[3], transparent.px[i][4]),
                   255>>]]

\* the replacement colours
BgColors == {<<0, 255, 0>>, <<255, 255, 255>>}

\* i32
MaxI32 == 2147483647
MinI32 == -MaxI32 - 1

\* pixel[c] as i32 + amount leaves i32, for a channel value c
AddOverflows(c, amount) == amount > MaxI32 - c

\* pixel[c] as i32 + amount in a build without overflow checks: the sum wraps
AddI32(c, amount) ==
  IF AddOverflows(c, amount)
    THEN MinI32 + (c - 1 - (MaxI32 - amount))
    ELSE c + amount

\* .clamp(0, 255) as u8
ClampU8(v) == IF v < 0 THEN 0 ELSE IF v > 255 THEN 255 ELSE v

\* ImageProcessor::adjust_brightness; in a build with overflow checks an
\* overflowing sum panics
adjust_brightness(img, amount, checks) ==
  IF checks /\ \E i \in 1..Len(img.px), ch \in 1..3 :
                  AddOverflows(img.px[i][ch], amount)
    THEN [res |-> "panic"]
    ELSE [res |-> "ok", w |-> img.w, h |-> img.h,
          px |-> [i \in 1..Len(img.px) |->
                    <<ClampU8(AddI32(img.px[i][1], amount)),
                      ClampU8(AddI32(img.px[i][2], amount)),
                      ClampU8(AddI32(img.px[i][3], amount)),
                      img.px[i][4]>>]]

ContrastFactorPlain(amount) == [num |-> amount + 255, den |-> 259 - amount]

\* let factor = (259.0 * (amount as f32 + 255.0)) / (255.0 * (259.0 - amount as f32)),
\* as a fraction
ContrastFactor(amount) ==
  [num |-> 259 * (amount + 255), den |-> 255 * (259 - amount)]

\* (factor * (pixel[c] as f32 - 128.0) + 128.0).clamp(0.0, 255.0) as u8 in exact
\* arithmetic.  With amount 259 the factor is infinite: the value is infinite
\* for c # 128 and NaN for c = 128, which `as u8` turns into 0
Contrasted(c, f) ==
  IF f.den = 0
    THEN IF c > 128 THEN 255 ELSE 0
    ELSE LET d == IF f.den < 0 THEN -f.den ELSE f.den
             n == IF f.den < 0 THEN -f.num ELSE f.num
             t == n * (c - 128) + 128 * d
         IN  IF t <= 0 THEN 0 ELSE IF t >= 255 * d THEN 255 ELSE t \div d

\* ImageProcessor::adjust_contrast
adjust_contrast(img, amount) ==
  [res |-> "ok", w |-> img.w, h |-> img.h,
   px |-> [i \in 1..Len(img.px) |->
             <<Contrasted(img.px[i][1], ContrastFactor(amount)),
               Contrasted(img.px[i][2], ContrastFactor(amount)),
               Contrasted(img.px[i][3], ContrastFactor(amount)),
               img.px[i][4]>>]]

\* a % b of f32 for a = n / d and b = m / d: the remainder has the sign of
\* the dividend
Rem(n, m) == IF n >= 0 THEN n % m ELSE -((-n) % m)

\* (n / d) as i32 and (n / d) as u8 for d > 0: the fraction is cut off towards
\* zero, and as u8 saturates at 0 and 255
Trunc(n, d) == IF n >= 0 THEN n \div d ELSE -((-n) \div d)
CastU8(n, d) == IF n <= 0 THEN 0 ELSE IF n >= 255 * d THEN 255 ELSE n \div d

\* ImageProcessor::rgb_to_hsv in exact arithmetic: h and s as fractions n / d,
\* v in 255ths
rgb_to_hsv(r, g, b) ==
  LET max == IF r >= g /\ r >= b THEN r ELSE IF g >= b THEN g ELSE b
      min == IF r <= g /\ r <= b THEN r ELSE IF g <= b THEN g ELSE b
      delta == max - min
      sixth == IF delta = 0 THEN 0
               ELSE IF max = r THEN Rem(g - b, 6 * delta)
               ELSE IF max = g THEN (b - r) + 2 * delta
               ELSE (r - g) + 4 * delta
  IN  [h |-> [n |-> sixth, d |-> IF delta = 0 THEN 6 ELSE 6 * delta],
       s |-> IF max = 0 THEN [n |-> 0, d |-> 1] ELSE [n |-> delta, d |-> max],
       v |-> max]

\* let new_h = (h + hue_shift) % 1.0 with hue_shift = amount as f32 / 360.0
ShiftedHue(h, amount) ==
  [n |-> Rem(360 * h.n + amount * h.d, 360 * h.d), d |-> 360 * h.d]

\* ImageProcessor::hsv_to_rgb in exact arithmetic
hsv_to_rgb(h, s, v) ==
  LET c == (v * s.n) \div s.d
      m == v - c
      f == Rem(6 * h.n, 2 * h.d)
      x == c * (h.d - (IF f >= h.d THEN f - h.d ELSE h.d - f))
      sector == Trunc(6 * h.n, h.d)
      C == c + m
      X == CastU8(x + m * h.d, h.d)
      Z == m
  IN  CASE sector = 0 -> <<C, X, Z>>
        [] sector = 1 -> <<X, C, Z>>
        [] sector = 2 -> <<Z, C, X>>
        [] sector = 3 -> <<Z, X, C>>
        [] sector = 4 -> <<X, Z, C>>
        [] OTHER -> <<C, Z, X>>

\* the hue handed to hsv_to_rgb for pixel p
NewHue(p, amount) == ShiftedHue(rgb_to_hsv(p[1], p[2], p[3]).h, amount)

\* adjust_hue, one pixel
HuePixel(p, amount) ==
  LET hsv == rgb_to_hsv(p[1], p[2], p[3])
      rgb == hsv_to_rgb(ShiftedHue(hsv.h, amount), hsv.s, hsv.v)
  IN  <<rgb[1], rgb[2], rgb[3], p[4]>>

\* ImageProcessor::adjust_hue
adjust_hue(img, amount) ==
  [res |-> "ok", w |-> img.w, h |-> img.h,
   px |-> [i \in 1..Len(img.px) |-> HuePixel(img.px[i], amount)]]

\* let gray = (0.299 * r + 0.587 * g + 0.114 * b) as u8, in exact arithmetic
Gray(p) == (299 * p[1] + 587 * p[2] + 114 * p[3]) \div 1000

\* (gray + factor * (pixel[c] - gray)).clamp(0.0, 255.0) as u8 with
\* factor = (amount as f32 + 100.0) / 100.0, in exact arithmetic
Saturated(c, gray, amount) == CastU8(100 * gray + (amount + 100) * (c - gray), 100)

\* ImageProcessor::adjust_saturation
adjust_saturation(img, amount) ==
  [res |-> "ok", w |-> img.w, h |-> img.h,
   px |-> [i \in 1..Len(img.px) |->
             <<Saturated(img.px[i][1], Gray(img.px[i]), amount),
               Saturated(img.px[i][2], Gray(img.px[i]), amount),
               Saturated(img.px[i][3], Gray(img.px[i]), amount),
               img.px[i][4]>>]]

\* a grading that shifts the hue first
ColorGradeHueFirst(img, hue, saturation, brightness, contrast, checks) ==
  LET rgba == [res |-> "ok", w |-> img.w, h |-> img.h, px |-> img.px]
      h == IF hue.some THEN adjust_hue(rgba, hue.v) ELSE rgba
      b == IF brightness.some THEN adjust_brightness(h, brightness.v, checks) ELSE h
      c == IF b.res = "ok" /\ contrast.some THEN adjust_contrast(b, contrast.v) ELSE b
  IN  IF c.res = "ok" /\ saturation.some THEN adjust_saturation(c, saturation.v) ELSE c

\* ImageProcessor::color_grade on the pixels of a loaded image: the four
\* `if let Some(..)` steps, each on the buffer the previous one left; a panic
\* of adjust_brightness ends the call
ColorGrade(img, hue, saturation, brightness, contrast, checks) ==
  LET rgba == [res |-> "ok", w |-> img.w, h |-> img.h, px |-> img.px]
      b == IF brightness.some THEN adjust_brightness(rgba, brightness.v, checks) ELSE rgba
      c == IF b.res = "ok" /\ contrast.some THEN adjust_contrast(b, contrast.v) ELSE b
      s == IF c.res = "ok" /\ saturation.some THEN adjust_saturation(c, saturation.v) ELSE c
  IN  IF s.res = "ok" /\ hue.some THEN adjust_hue(s, hue.v) ELSE s

\* the manual values of the graded requests
ManualValues ==
  [hue : {Absent, Given(30)}, saturation : {Absent, Given(-50)},
   brightness : {Absent, Given(30), Given(MaxI32)}, contrast : {Absent, Given(40)}]

\* the images of the hue adjustment: one pixel of each kind of colour (grey,
\* primary, and one colour per sextant of the hue circle)
HueImages ==
  Images({<<128, 128, 128, 255>>, <<255, 0, 0, 255>>, <<200, 100, 50, 77>>,
          <<100, 200, 50, 0>>, <<50, 200, 100, 255>>, <<50, 100, 200, 255>>,
          <<100, 50, 200, 255>>, <<255, 0, 128, 255>>},
         {<<1, 1>>})

\* hue amounts in degrees
HueAmounts == {-390, -30, 0, 30, 120, 360, 400}

\* the images of the background removal: up to 2 x 2 pixels, and 3 x 1 with
\* a pixel that is no corner, over colours at distance just below 50 (the
\* square root of 2490), exactly 50 and more from black
BgImages ==
  Images({<<0, 0, 0, 255>>, <<40, 29, 7, 0>>, <<50, 0, 0, 255>>, <<255, 255, 255, 100>>},
         {<<1, 1>>, <<2, 1>>, <<1, 2>>, <<2, 2>>, <<3, 1>>})

\* the images of the colour adjustments
GradeImages ==
  Images({<<0, 1, 128, 0>>, <<127, 129, 255, 255>>, <<200, 100, 50, 77>>},
         {<<1, 1>>, <<2, 1>>})

\* the amounts of the colour adjustments: Option<i32> of ColorGradeRequest,
\* any i32
Amounts == {MinI32, -300, -255, -10, 0, 30, 255, 259, 300, MaxI32}
\* the amounts whose contrast factor is computed without rounding to infinity
ContrastAmounts == Amounts \ {MinI32, MaxI32}

\* a call of simple_bg_removal
RemoveBg(img) ==
  /\ eng = NoCall
  /\ eng' = [op |-> "remove_bg", img |-> img, out |-> simple_bg_removal(img)]
  /\ UNCHANGED pvars

\* a call of replace_background
ReplaceBackground(img, bg_color) ==
  /\ eng = NoCall
  /\ eng' = [op |-> "replace_background", img |-> img, bg_color |-> bg_color,
             out |-> replace_background(img, bg_color)]
  /\ UNCHANGED pvars

\* a call of adjust_hue
AdjustHue(img, amount) ==
  /\ eng = NoCall
  /\ eng' = [op |-> "adjust_hue", img |-> img, amount |-> amount,
             out |-> adjust_hue(img, amount)]
  /\ UNCHANGED pvars

\* a call of color_grade
ManualGrade(img, m, checks) ==
  /\ eng = NoCall
  /\ eng' = [op |-> "color_grade", img |-> img, m |-> m, checks |-> checks,
             out |-> ColorGrade(img, m.hue, m.saturation, m.brightness, m.contrast,
                                checks)]
  /\ UNCHANGED pvars

\* a call of adjust_brightness
AdjustBrightness(img, amount, checks) ==
  /\ eng = NoCall
  /\ eng' = [op |-> "adjust_brightness", img |-> img, amount |-> amount,
             checks |-> checks, out |-> adjust_brightness(img, amount, checks)]
  /\ UNCHANGED pvars

\* a call of adjust_contrast
AdjustContrast(img, amount) ==
  /\ eng = NoCall
  /\ eng' = [op |-> "adjust_contrast", img |-> img, amount |-> amount,
             out |-> adjust_contrast(img, amount)]
  /\ UNCHANGED pvars

InitPixels == Start(Buffer, FALSE)

NextPixels ==
  \/ /\ eng = NoCall
     /\ \E img \in BgImages : RemoveBg(img)
  \/ /\ eng = NoCall
     /\ \E img \in BgImages, bg_color \in BgColors : ReplaceBackground(img, bg_color)
  \/ /\ eng = NoCall
     /\ \E img \in GradeImages, amount \in Amounts, checks \in BOOLEAN :
          AdjustBrightness(img, amount, checks)
  \/ /\ eng = NoCall
     /\ \E img \in GradeImages, amount \in ContrastAmounts : AdjustContrast(img, amount)
  \/ /\ eng = NoCall
     /\ \E img \in HueImages, amount \in HueAmounts : AdjustHue(img, amount)
  \/ /\ eng = NoCall
     /\ \E img \in GradeImages, m \in ManualValues, checks \in BOOLEAN :
          ManualGrade(img, m, checks)
  \/ EngineReturn

SpecPixels == InitPixels /\ [][NextPixels]_vars

\* ------------------------------------------- calls of process_color_grade
\* the mode step of process_color_grade for a job record with these parameters
ProcessColorGrade(parameters, readable) ==
  /\ eng = NoCall
  /\ eng' = [op |-> "process_color_grade", parameters |-> parameters,
             readable |-> readable, call |-> Grade(parameters, readable)]
  /\ UNCHANGED pvars

InitMode == Start(Buffer, FALSE)

NextMode ==
  \/ /\ eng = NoCall
     /\ \E parameters \in Parameters, readable \in BOOLEAN :
          ProcessColorGrade(parameters, readable)
  \/ EngineReturn

SpecMode == InitMode /\ [][NextMode]_vars

\* ---------------------------------- colour grading jobs through the worker

\* number of colour grading jobs submitted with parameters
MaxGraded == 1

\* the parameters of the submitted colour grading requests: a LUT that parses,
\* one that does not, or none; a known preset, an unknown one, or none
JobParameters ==
  {p \in Parameters :
     /\ p.lut_location \in {"null", "luts/good.cube", "luts/broken.cube"}
     /\ p.preset \in {"null", "vintage", "sepia"}
     /\ p.hue = Absent
     /\ p.saturation = Absent
     /\ p.contrast = Absent
     /\ p.brightness = Given(30)}

\* POST /color-grade: the request's fields become the parameters of the job
SubmitGrade(u, parameters) ==
  /\ nextId <= MaxGraded
  /\ req' = [req EXCEPT ![nextId] =
               [pc |-> "mark_queued", user |-> u, route |-> "color_grade"]]
  /\ msg' = [msg EXCEPT ![nextId] = [job_type |-> "color_grade", valid_uuid |-> TRUE]]
  /\ jobs' = [jobs EXCEPT ![nextId] =
                [NewJob(u, "color_grade", IF Tier(u) = "pro" THEN 10 ELSE 0)
                   EXCEPT !.parameters = parameters]]
  /\ nextId' = nextId + 1
  /\ UNCHANGED <<redis, capacity, statuses, chan, rlist, held, wpc, cur, hi, sawFull, admitted, lock, qvars, eng, senders>>

InitGrade == Start(MaxReq, FALSE)

NextGrade ==
  \/ \E u \in Users, parameters \in JobParameters : SubmitGrade(u, parameters)
  \/ \E r \in Ids : EnqueueMarkQueued(r)
  \/ \E r \in Ids : EnqueueSend(r)
  \/ Worker

SpecGrade == InitGrade /\ [][NextGrade]_vars

\* --------------------------------------- job types the worker does not know

\* job_type strings outside the match of start_worker
OtherTypes == {"thumbnail", "unknown"}

\* a job record of another writer of the jobs table whose job_type no arm of
\* the worker's match names, and its JobMessage
StoredOther(u, jt) ==
  /\ nextId <= MaxReq
  /\ req' = [req EXCEPT ![nextId] = [pc |-> "mark_queued", user |-> u, route |-> "stored"]]
  /\ msg' = [msg EXCEPT ![nextId] = [job_type |-> jt, valid_uuid |-> TRUE]]
  /\ jobs' = [jobs EXCEPT ![nextId] = NewJob(u, jt, 0)]
  /\ nextId' = nextId + 1
  /\ UNCHANGED <<redis, capacity, statuses, chan, rlist, held, wpc, cur, hi, sawFull, admitted, lock, qvars, eng, senders>>

InitTypes == Start(MaxReq, FALSE)

NextTypes ==
  \/ \E u \in Users : SubmitColorGrade(u)
  \/ \E u \in Users, jt \in OtherTypes : StoredOther(u, jt)
  \/ \E r \in Ids : EnqueueMarkQueued(r)
  \/ \E r \in Ids : EnqueueSend(r)
  \/ Worker

SpecTypes == InitTypes /\ [][NextTypes]_vars

\* ------------------------------------------- the channel closes (worker.rs)

\* positions of a request handler that holds no Queue handle any more
Returned == {"unused", "ok", "err", "denied_concurrent", "denied_quota"}

\* the last Queue handle is dropped: no handler is running, and none starts
\* afterwards
DropSenders ==
  /\ senders
  /\ \A r \in Ids : req[r].pc \in Returned
  /\ senders' = FALSE
  /\ UNCHANGED <<redis, capacity, statuses, chan, rlist, held, jobs, msg, req, nextId, wpc, cur, hi, sawFull, admitted, lock, qvars, eng>>

\* rx.recv() returns None: every sender is dropped and the buffer is empty;
\* the `while let` loop ends and the worker task returns
Exit ==
  /\ wpc = "recv"
  /\ ~senders
  /\ chan = <<>>
  /\ wpc' = "exited"
  /\ UNCHANGED <<redis, capacity, statuses, chan, rlist, held, jobs, msg, req, nextId, cur, hi, sawFull, admitted, lock, qvars, eng, senders>>

InitClose == Start(MaxReq, FALSE)

NextClose ==
  \/ /\ senders
     /\ \E u \in Users : SubmitColorGrade(u)
  \/ /\ senders
     /\ \E m \in DirectMsgs : DirectEnqueue(m)
  \/ /\ senders
     /\ \E u \in Users, jt \in GatedRoutes : StoredEnqueue(u, jt)
  \/ \E r \in Ids : EnqueueMarkQueued(r)
  \/ \E r \in Ids : EnqueueSend(r)
  \/ DropSenders
  \/ Worker
  \/ Exit

SpecClose == InitClose /\ [][NextClose]_vars

\* ------------------------------------------------------------------ claims
\* a job with a record of user u that is queued or processing
ActiveJobOf(u) ==
  \E j \in Ids : jobs[j].exists /\ jobs[j].user = u
                 /\ jobs[j].status \in {"queued", "processing"}

\* C1: once the Status Store entry of a job is Completed or Failed, no step
\* writes that entry again.
C1_TerminalIsFinal ==
  [][\A j \in Ids : statuses[j].st \in Terminal => statuses'[j] = statuses[j]]_vars

C3_ProgressMonotone ==
  \A j \in Ids : statuses[j].st = "Processing" =>
     /\ statuses[j].progress \in 0..100
     /\ statuses[j].progress = hi[j]

\* C4: the Status Store never holds Processing{progress: 100}.
C4_HundredOnlyAtCompleted ==
  \A j \in Ids : statuses[j] # Processing(100)

\* C5: without a durable mirror, an enqueue whose send finds the local buffer
\* full returns an error: it is neither suspended nor completed with Ok.
C5_SaturationError ==
  ~redis => \A r \in sawFull : req[r].pc = "err"

\* C6: every job the worker has dequeued reaches Completed or Failed: when the
\* worker is back at rx.recv() no entry is left in Processing.
C6_DequeuedReachTerminal ==
  wpc = "recv" => \A j \in Ids : statuses[j].st # "Processing"

\* C7: whenever the worker finishes a job without completing it, the Status
\* Store holds Failed for it and its persisted record is marked failed.
C7_FailureWritesFailed ==
  [][(wpc # "recv" /\ wpc' = "recv" /\ statuses'[cur].st # "Completed") =>
        /\ statuses'[cur].st = "Failed"
        /\ jobs'[cur].exists => jobs'[cur].status = "failed"]_vars

\* C8: a convert submission of a free-tier user who already has
\* free_tier_image_daily image jobs today is denied with the daily-quota error.
C8_DailyImageQuota ==
  [][\A u \in Users :
       (/\ nextId' = nextId + 1
        /\ req'[nextId].user = u /\ req'[nextId].route = "convert"
        /\ Tier(u) = "free"
        /\ Cardinality({j \in Ids : jobs[j].exists /\ jobs[j].user = u
                                     /\ jobs[j].job_type = "convert"})
             >= FreeTierImageDaily)
       => req'[nextId].pc = "denied_quota"]_vars

\* C9: for a user with concurrency limit 1, the concurrency check of a gated
\* submission denies exactly when the user has a job whose persisted record is
\* queued or processing, and admits otherwise (so also once that job is
\* completed or failed).
C9_ConcurrencyGate ==
  [][\A r \in Ids :
       (/\ req[r].pc = "check_concurrent"
        /\ req'[r].pc # "check_concurrent"
        /\ ConcurrentLimit(Tier(req[r].user)) = 1)
       => /\ req'[r].pc = "denied_concurrent" <=> ActiveJobOf(req[r].user)
          /\ req'[r].pc = "create" <=> ~ActiveJobOf(req[r].user)]_vars

\* C9 witness: a gated submission was denied for concurrency while an earlier
\* job of the same user, admitted with no active job, is still active.
C9_Witness ==
  \E r, j \in Ids :
     /\ j < r /\ j \in admitted
     /\ req[r].pc = "denied_concurrent" /\ req[j].user = req[r].user
     /\ jobs[j].exists /\ jobs[j].status = "processing"

\* C10: every job record or Status Store entry created by convert, remove_bg
\* or color_grade belongs to a submission that passed both admission checks.
C10_AdmissionBeforeJob ==
  \A r \in Ids :
     (req[r].route \in Routes /\ (jobs[r].exists \/ statuses[r].st # "None"))
       => r \in admitted

\* the positions of a handler that returned AppError::QuotaExceeded
Denied == {"denied_quota", "denied_concurrent"}
Range(s) == {s[i] : i \in 1..Len(s)}

C12_AdmittedAlwaysCreates ==
  [][\A r \in Ids :
       (req[r].pc = "create" /\ req'[r] # req[r]) =>
         /\ req'[r].pc = "mark_queued"
         /\ jobs'[r].exists /\ jobs'[r].status = "queued"]_vars

\* C12 witness: two submissions of one user both passed check_concurrent, both
\* were enqueued with Ok, and the user's active jobs exceed the tier's ceiling.
C12_Witness ==
  \E r1, r2 \in admitted :
     /\ r1 # r2 /\ req[r1].user = req[r2].user
     /\ req[r1].pc = "ok" /\ req[r2].pc = "ok"
     /\ GetActiveJobsCount(req[r1].user) > ConcurrentLimit(Tier(req[r1].user))

\* 00:00:00 UTC of the calendar day the instant t lies in
Midnight(t) ==
  CHOOSE m \in {k * DaySecs : k \in 0..2} : m <= t /\ t < m + DaySecs

\* the rows of user u and type jt created at or after 00:00:00 UTC of today
CreatedToday(u, jt) ==
  {i \in 1..Len(rows) : /\ rows[i].user = u /\ rows[i].job_type = jt
                         /\ rows[i].created_at >= Midnight(now)}

\* C13: the count check_quota works with is the number of the user's jobs of
\* that kind created at or after 00:00:00 UTC of the current UTC day; at
\* 00:00:01 a job created at 23:59:59 of the day before is not counted, and a
\* job created at 00:00:00 is.
C13_UtcDayWindow ==
  verdict.op = "check_quota" =>
    /\ verdict.count = Cardinality(CreatedToday(verdict.user, verdict.kind))
    /\ now = DaySecs + 1 =>
         /\ \A i \in CreatedToday(verdict.user, verdict.kind) :
               rows[i].created_at # DaySecs - 1
         /\ \A i \in 1..Len(rows) :
               (/\ rows[i].user = verdict.user /\ rows[i].job_type = verdict.kind
                /\ rows[i].created_at = DaySecs)
               => i \in CreatedToday(verdict.user, verdict.kind)

\* C13 witness: at 00:00:01 a check counts 1 for a user with one job created
\* at 23:59:59 and one created at 00:00:00.
C13_Witness ==
  /\ verdict.op = "check_quota" /\ now = DaySecs + 1
  /\ Len(rows) = 2
  /\ rows[1].created_at = DaySecs - 1 /\ rows[2].created_at = DaySecs
  /\ \A i \in 1..2 : rows[i].user = verdict.user /\ rows[i].job_type = verdict.kind
  /\ verdict.count = 1

\* the daily ceiling of each (tier, kind) pair
DailyCeiling(tier, kind) ==
  IF tier = "free" /\ kind = "image" THEN FreeTierImageDaily
  ELSE IF tier = "free" /\ kind = "video" THEN FreeTierVideoDaily
  ELSE IF tier = "pro" /\ kind = "video" THEN ProTierVideoDaily
  ELSE Unlimited

\* the concurrency ceiling of each tier
ConcurrencyCeiling(tier) ==
  IF tier = "free" THEN FreeTierConcurrent
  ELSE IF tier = "pro" THEN ProTierConcurrent
  ELSE Unlimited

\* C14: check_quota denies exactly when count >= the daily ceiling of the
\* (tier, kind) pair, check_concurrent exactly when active >= the concurrency
\* ceiling of the tier; pairs and tiers without a ceiling are never denied.
C14_DeniesAtLimit ==
  /\ verdict.op = "check_quota" =>
       /\ verdict.denied <=> verdict.count >= DailyCeiling(Tier(verdict.user), verdict.kind)
       /\ DailyCeiling(Tier(verdict.user), verdict.kind) = Unlimited => ~verdict.denied
  /\ verdict.op = "check_concurrent" =>
       /\ verdict.denied <=> verdict.count >= ConcurrencyCeiling(Tier(verdict.user))
       /\ Tier(verdict.user) \notin {"free", "pro"} => ~verdict.denied

\* C14 witness: a pro user's video check is denied with count equal to
\* pro_tier_video_daily.
C14_Witness ==
  /\ verdict.op = "check_quota" /\ verdict.user = "pro" /\ verdict.kind = "video"
  /\ verdict.count = ProTierVideoDaily /\ verdict.denied

\* C15: with a durable mirror, an enqueue that returns Ok placed its job in
\* exactly one place: a push answered with Ok put it on the durable list and
\* not in the channel; a push answered with an error put nothing on the list,
\* and the send that follows puts the job in the channel.
C15_ExactlyOnePlace ==
  [][\A r \in Ids :
       /\ (req[r].pc = "push" /\ req'[r].pc = "ok") =>
            rlist' = Append(rlist, r) /\ chan' = chan
       /\ (req[r].pc = "push" /\ req'[r].pc = "send") => rlist' = rlist
       /\ (req[r].pc \in {"send", "send_wait"} /\ req'[r].pc = "ok") =>
            chan' = Append(chan, r) /\ rlist' = rlist]_vars

\* the places a job that was handed over can be: the durable list, the
\* redelivery task, the channel, the worker, or already marked Processing
Delivered(j) == cur = j \/ hi[j] >= 0
InFlight(j) == j \in Range(rlist) \cup Range(chan) \/ held = j

\* C15 (amended): with a durable mirror, an enqueue that returns Ok placed its
\* job on the durable list or in the channel, and the job is not lost: a push
\* answered with Ok put it on the list and not in the channel; after a push
\* answered with an error the job is sent to the channel, whether or not the
\* server had put it on the list.
C15_AtLeastOnePlace ==
  [][\A r \in Ids :
       /\ (req[r].pc = "push" /\ req'[r].pc = "ok") =>
            rlist' = Append(rlist, r) /\ chan' = chan
       /\ (req[r].pc = "push" /\ req'[r].pc = "send") =>
            rlist' \in {rlist, Append(rlist, r)} /\ chan' = chan
       /\ (req[r].pc \in {"send", "send_wait"} /\ req'[r].pc = "ok") =>
            chan' = Append(chan, r) /\ rlist' = rlist
       /\ req'[r].pc = "ok" => InFlight(r)' \/ Delivered(r)']_vars

\* C15 witness: enqueue returned Ok for a job that is both on the durable
\* list and in the channel.
C15_Witness ==
  \E r \in Ids : req[r].pc = "ok" /\ r \in Range(rlist) /\ r \in Range(chan)

Pending == (IF wpc = "mark" THEN <<cur>> ELSE <<>>) \o chan

\* C17: on the local path jobs are marked Processing in the order in which
\* their sends completed, whatever their priority: a completed send puts the
\* job behind all pending ones, and the job marked Processing is always the
\* oldest pending one.
C17_Fifo ==
  [][/\ Pending' # Pending =>
          \/ \E r \in Ids : Pending' = Append(Pending, r) /\ req'[r].pc = "ok"
          \/ /\ Pending # <<>> /\ Pending' = Tail(Pending)
             /\ statuses'[Head(Pending)] = Processing(0)
     /\ \A j \in Ids :
          (statuses'[j].st = "Processing" /\ statuses[j].st # "Processing") =>
            Pending # <<>> /\ j = Head(Pending) /\ Pending' = Tail(Pending)]_vars

\* C17 witness: a free user's job (priority 0) has been marked Processing
\* while a pro user's job (priority 10), sent after it, still waits.
C17_Witness ==
  \E a, b \in Ids :
     /\ cur = a /\ statuses[a] = Processing(0) /\ jobs[a].priority = 0
     /\ chan = <<b>> /\ statuses[b] = Queued /\ jobs[b].priority = 10

\* C19: a failing job never stops the worker: while a job waits in the
\* channel, the worker task is alive to receive it.
C19_FailureDoesNotStopWorker ==
  chan # <<>> => wpc # "panicked"

\* C18: a task that holds the mutex of the Status Store is at an insert (or
\* at the read of get_status), never at a suspension point: a handler holding
\* it has not yet reached its push or its send, the worker holding it is at
\* none of its repository calls, transforms or its receive; and the holder's
\* next step, which releases the mutex, waits for nothing.
C18_NoLockAcrossAwait ==
  /\ \A r \in Ids : lock = Handler(r) =>
        /\ req[r].pc = "mark_queued"
        /\ ENABLED EnqueueMarkQueued(r)
  /\ lock = WorkerTask =>
        /\ wpc \in WorkerInserts
        /\ ENABLED (MarkProcessing \/ WriteCompleted \/ WriteFailed)
  /\ lock = Reader => ENABLED GetStatus

\* C18 witness: get_status holds the mutex while a handler is suspended in
\* its send on a full channel and the worker is inside a transform.
C18_Witness ==
  /\ lock = Reader
  /\ \E r \in Ids : req[r].pc = "send_wait"
  /\ wpc = "transform"

\* the Status Store state of job j and the status of its persisted record
\* name the same lifecycle state
Agree(j) ==
  \/ statuses[j].st = "Processing" /\ jobs[j].status = "processing"
  \/ statuses[j].st = "Completed" /\ jobs[j].status = "completed" /\ jobs[j].has_result
  \/ statuses[j].st = "Failed" /\ jobs[j].status = "failed"

\* C20: when the worker goes back to wait for the next job, it has issued the
\* repository write that matches the state it last wrote to the Status Store
\* (Job::complete after Completed, Job::fail after Failed), and the entry and
\* the record of the job it handled agree.
C20_BothStoresWritten ==
  [][(wpc # "recv" /\ wpc' = "recv") =>
       /\ wpc \in {"db_complete", "db_fail"}
       /\ jobs'[cur].exists => Agree(cur)']_vars

\* C21: the worker handles one job at a time: at most one job has a Processing
\* entry in the Status Store, and the worker takes the next job from the
\* channel only when no entry is left in Processing.
C21_OneJobAtATime ==
  [][/\ Cardinality({j \in Ids : statuses'[j].st = "Processing"}) <= 1
     /\ (wpc = "recv" /\ wpc' = "mark") =>
           \A j \in Ids : statuses[j].st # "Processing"]_vars

\* the file has a LUT_3D_SIZE directive and the last one with an argument
\* names a usize
Declares(file) == file.dirs # <<>> /\ ParseDirs(file.dirs, NoSize).some
DeclaredSize(file) == ParseDirs(file.dirs, NoSize).n

\* count = n * n * n over the integers
IsCubeOf(count, n) == n <= count /\ n * n * n = count

\* C22: from_cube on a readable file with a `LUT_3D_SIZE n` directive succeeds
\* exactly when the number of three-number lines is n*n*n and otherwise fails
\* with the count-mismatch parse error; on success the LUT has size n and
\* n*n*n entries.
C22_DeclaredSizeCount ==
  (eng.op = "from_cube" /\ eng.file.readable /\ Declares(eng.file)) =>
     /\ eng.out.res = "ok" <=> IsCubeOf(eng.file.triples, DeclaredSize(eng.file))
     /\ eng.out.res # "ok" =>
          eng.out.res = "parse_error" /\ eng.out.msg = "count_mismatch"
     /\ eng.out.res = "ok" =>
          /\ eng.out.size = DeclaredSize(eng.file)
          /\ IsCubeOf(eng.out.entries, DeclaredSize(eng.file))

\* no LUT_3D_SIZE line of the file names a usize
Undeclared(file) == \A i \in 1..Len(file.dirs) : file.dirs[i].arg # "usize"

\* C23: without a usable LUT_3D_SIZE, from_cube on a readable file succeeds
\* exactly when the number of three-number lines is a positive perfect cube,
\* with the cube root as size, and otherwise fails with a parse error.
C23_InferredSize ==
  (eng.op = "from_cube" /\ eng.file.readable /\ Undeclared(eng.file)) =>
     /\ eng.out.res = "ok" <=>
          /\ eng.file.triples > 0
          /\ \E r \in 1..eng.file.triples : IsCubeOf(eng.file.triples, r)
     /\ eng.out.res = "ok" =>
          /\ IsCubeOf(eng.file.triples, eng.out.size)
          /\ eng.out.entries = eng.file.triples
     /\ eng.out.res # "ok" => eng.out.res = "parse_error"

\* C23 witness: a file of 27 three-number lines whose only LUT_3D_SIZE line
\* has an unparsable argument was loaded as a LUT of size 3
C23_Witness ==
  /\ eng.op = "from_cube"
  /\ eng.file.dirs = <<[arg |-> "bad", n |-> 0]>>
  /\ eng.file.triples = 27
  /\ eng.out.res = "ok"
  /\ eng.out.size = 3

\* the channel value c lies on a lattice point of a LUT of size n:
\* c = k * 255 / (n - 1) for an integer k in 0..n-1
Aligned(c, n) == \E k \in 0..(n - 1) : c * (n - 1) = 255 * k

\* C24: an identity LUT of size N >= 2 reproduces R, G and B of every pixel
\* whose three channel values are lattice-aligned.
C24_IdentityRoundTrip ==
  (eng.op = "apply_to_image" /\ eng.lut.kind = "identity" /\ eng.lut.size >= 2) =>
     /\ eng.out.res = "ok"
     /\ \A i \in 1..Len(eng.img.px) :
          (\A ch \in 1..3 : Aligned(eng.img.px[i][ch], eng.lut.size)) =>
             \A ch \in 1..3 : eng.out.px[i][ch] = eng.img.px[i][ch]

\* C24 witness: the identity LUT of size 4 was applied to the lattice-aligned
\* pixel (85, 170, 255)
C24_Witness ==
  /\ eng.op = "apply_to_image"
  /\ eng.lut.kind = "identity"
  /\ eng.lut.size = 4
  /\ eng.img.px = <<<<85, 170, 255, 200>>>>
  /\ eng.out.res = "ok"
  /\ eng.out.px[1] = <<85, 170, 255, 200>>

\* C25: apply_to_image returns an image of the dimensions of the input in which
\* every pixel (r, g, b, a) became (entry[ri + gi*size + bi*size*size], a) with
\* ri = r*(size-1) div 255 and likewise gi, bi; each index is non-decreasing in
\* the channel value, 0 for 0 and size-1 for 255.
C25_PixelMapping ==
  eng.op = "apply_to_image" =>
     /\ eng.out.res = "ok"
     /\ eng.out.w = eng.img.w /\ eng.out.h = eng.img.h
     /\ Len(eng.out.px) = Len(eng.img.px)
     /\ \A i \in 1..Len(eng.img.px) :
          LET p == eng.img.px[i]
              n == eng.lut.size
              e == Entry(eng.lut, (p[1] * (n - 1)) \div 255
                                    + ((p[2] * (n - 1)) \div 255) * n
                                    + ((p[3] * (n - 1)) \div 255) * n * n)
          IN  eng.out.px[i] = <<e[1], e[2], e[3], p[4]>>
     /\ Lattice(0, eng.lut.size) = 0
     /\ Lattice(255, eng.lut.size) = eng.lut.size - 1
     /\ \A c \in 0..254 : Lattice(c, eng.lut.size) <= Lattice(c + 1, eng.lut.size)

\* every pixel of the image has the same R, G and B
Uniform(img) ==
  \A i \in 1..Len(img.px), ch \in 1..3 : img.px[i][ch] = img.px[1][ch]

\* C26: remove_bg on an image whose pixels all have the same colour sets the
\* alpha of every pixel to 0.
C26_UniformIsTransparent ==
  (eng.op = "remove_bg" /\ Uniform(eng.img)) =>
     /\ eng.out.res = "ok"
     /\ \A i \in 1..Len(eng.img.px) : eng.out.px[i][4] = 0

\* C26 witness: a 2 x 2 image of white pixels of alpha 100 came back fully
\* transparent
C26_Witness ==
  /\ eng.op = "remove_bg"
  /\ eng.img.w = 2 /\ eng.img.h = 2
  /\ \A i \in 1..4 : eng.img.px[i] = <<255, 255, 255, 100>>
  /\ \A i \in 1..4 : eng.out.px[i] = <<255, 255, 255, 0>>

\* C27: contrast adjustment with amount 0 has gain factor 1 and returns every
\* pixel unchanged in R, G, B and alpha.
C27_ContrastZeroIsIdentity ==
  (eng.op = "adjust_contrast" /\ eng.amount = 0) =>
     /\ ContrastFactor(0).num = ContrastFactor(0).den
     /\ \A c \in 0..255 : Contrasted(c, ContrastFactor(0)) = c
     /\ eng.out.res = "ok"
     /\ eng.out.px = eng.img.px

\* C27 witness: amount 0 was applied to an image of two different pixels
C27_Witness ==
  /\ eng.op = "adjust_contrast"
  /\ eng.amount = 0
  /\ eng.img.px = <<<<0, 1, 128, 0>>, <<127, 129, 255, 255>>>>
  /\ eng.out.px = eng.img.px

\* min(255, max(0, c + amount)) over the integers
Brightened(c, amount) ==
  IF amount >= 255 - c THEN 255 ELSE IF amount <= -c THEN 0 ELSE c + amount

\* C29: brightness adjustment sets each of R, G, B to
\* min(255, max(0, channel + amount)) for every 32-bit amount and leaves alpha
\* unchanged; the addition never overflows.
C29_BrightnessClamps ==
  eng.op = "adjust_brightness" =>
     /\ eng.out.res = "ok"
     /\ \A i \in 1..Len(eng.img.px) :
          /\ \A ch \in 1..3 :
               /\ ~AddOverflows(eng.img.px[i][ch], eng.amount)
               /\ eng.out.px[i][ch] = Brightened(eng.img.px[i][ch], eng.amount)
          /\ eng.out.px[i][4] = eng.img.px[i][4]

\* C28: a color_grade job applies exactly one mode, by precedence: the LUT when
\* parameters hold a string lut_location; otherwise the preset when they hold
\* a string preset; otherwise the manual values.  The manual values reach the
\* engine only in the manual mode, the preset only when no LUT is named.
C28_ModePrecedence ==
  eng.op = "process_color_grade" =>
     LET p == eng.parameters
         manual == [res |-> "ok", hue |-> p.hue, saturation |-> p.saturation,
                    brightness |-> p.brightness, contrast |-> p.contrast]
     IN  /\ eng.call.fn \in {"apply_lut", "apply_preset", "color_grade"}
         /\ eng.call.fn = "apply_lut" <=> IsStr(p.lut_location)
         /\ eng.call.fn = "apply_preset" <=>
              (~IsStr(p.lut_location) /\ IsStr(p.preset))
         /\ eng.call.fn = "color_grade" <=>
              (~IsStr(p.lut_location) /\ ~IsStr(p.preset))
         /\ eng.call.fn = "apply_lut" =>
              eng.call.out = apply_lut(eng.readable, p.lut_location)
         /\ eng.call.fn = "apply_preset" =>
              eng.call.out = apply_preset(eng.readable, p.preset)
         /\ (eng.call.fn = "color_grade" /\ eng.readable) => eng.call.out = manual

\* C28 witness: a job with a LUT, a known preset and manual values was graded
\* with the LUT alone
C28_Witness ==
  /\ eng.op = "process_color_grade"
  /\ eng.parameters.lut_location = "luts/good.cube"
  /\ eng.parameters.preset = "vintage"
  /\ eng.parameters.brightness = Given(30)
  /\ eng.call = [fn |-> "apply_lut", out |-> [res |-> "ok", lut |-> "luts/good.cube"]]

\* the job's preset is a name other than vintage, cinematic and bright
UnknownPreset(j) ==
  /\ jobs[j].exists
  /\ jobs[j].job_type = "color_grade"
  /\ IsStr(jobs[j].parameters.preset)
  /\ jobs[j].parameters.preset \notin {"vintage", "cinematic", "bright"}

\* the worker has passed the engine call of job j: it saves the result or
\* records the completion
Saving(j) == cur = j /\ wpc \in {"save", "write_completed", "db_complete"}

EngineRejects(j) ==
  /\ jobs[j].exists
  /\ jobs[j].job_type = "color_grade"
  /\ Grade(jobs[j].parameters, TRUE).out.res = "err"

EmptyAssetsAtDispatch ==
  /\ wpc = "dispatch"
  /\ msg[cur].job_type \in Routes
  /\ jobs[cur].exists
  /\ jobs[cur].assets = 0

\* C31: for each of the three job kinds, a dequeued job whose record has an
\* empty media_asset_ids list leaves its process_* function on the failure
\* path (Failed is written next), and the worker task stays alive for the
\* next job.
C31_EmptyAssetsFail ==
  [][(EmptyAssetsAtDispatch /\ wpc' # wpc) => wpc' = "write_failed"]_vars

\* job j carries a job_type that is none of remove_bg, convert, color_grade
UnknownType(j) ==
  /\ msg[j].job_type # ""
  /\ msg[j].job_type \notin {"remove_bg", "convert", "color_grade"}

\* C32: a dequeued job whose job_type is none of remove_bg, convert,
\* color_grade goes from the match straight to the failure path: the worker
\* never reaches the Transform Engine call or the storage save for it, it is
\* never Completed, and once the worker has finished with it its Status Store
\* entry is Failed and its persisted record is failed.
C32_UnknownTypeFails ==
  \A j \in Ids :
    UnknownType(j) =>
      /\ cur = j => wpc \in {"mark", "db_processing", "dispatch", "write_failed", "db_fail"}
      /\ statuses[j].st # "Completed"
      /\ hi[j] <= 0
      /\ jobs[j].exists => (~jobs[j].has_result /\ jobs[j].status # "completed")
      /\ (cur # j /\ statuses[j].st \notin {"None", "Queued"}) =>
           /\ statuses[j].st = "Failed"
           /\ jobs[j].exists => jobs[j].status = "failed"

\* a job of type thumbnail with a persisted record has been dequeued and ended
\* Failed in both stores
C32_Witness ==
  \E j \in Ids :
    /\ UnknownType(j)
    /\ jobs[j].exists
    /\ cur # j
    /\ statuses[j].st = "Failed"
    /\ jobs[j].status = "failed"

\* the sum of channel ch over the four corner pixels of img
Corners(img, ch) ==
  img.px[1][ch] + img.px[img.w][ch] + img.px[(img.h - 1) * img.w + 1][ch]
    + img.px[img.h * img.w][ch]

\* a is the integer average of channel ch over the four corners of img
IsCornerAverage(img, ch, a) ==
  4 * a <= Corners(img, ch) /\ Corners(img, ch) < 4 * a + 4

\* the Euclidean RGB distance of pixel p to the colour <<r, g, b>> is strictly
\* below 50: its square is below the square of 50
Below50(p, r, g, b) ==
  (p[1] - r) * (p[1] - r) + (p[2] - g) * (p[2] - g) + (p[3] - b) * (p[3] - b)
    < 50 * 50

\* C33: remove_bg keeps R, G, B of every pixel and sets alpha to 0 when the
\* pixel's Euclidean RGB distance to the per-channel integer average of the
\* four corner pixels is strictly below 50, to 255 otherwise, whatever the
\* input alpha was.
C33_ThresholdAlpha ==
  eng.op = "remove_bg" =>
    /\ eng.out.res = "ok"
    /\ eng.out.w = eng.img.w
    /\ eng.out.h = eng.img.h
    /\ \E r \in 0..255 :
         /\ IsCornerAverage(eng.img, 1, r)
         /\ \E g \in 0..255 :
              /\ IsCornerAverage(eng.img, 2, g)
              /\ \E b \in 0..255 :
                   /\ IsCornerAverage(eng.img, 3, b)
                   /\ \A i \in 1..Len(eng.img.px) :
                        /\ \A ch \in 1..3 : eng.out.px[i][ch] = eng.img.px[i][ch]
                        /\ eng.out.px[i][4] =
                             IF Below50(eng.img.px[i], r, g, b) THEN 0 ELSE 255

\* C33 witness: between two black corners, a pixel at distance exactly 50
\* stayed opaque, and in another call a pixel at distance below 50 (squared
\* distance 2490) became transparent; the black corners of input alpha 255
\* became transparent
C33_Witness ==
  /\ eng.op = "remove_bg"
  /\ \/ /\ eng.img.px = <<<<0, 0, 0, 255>>, <<50, 0, 0, 255>>, <<0, 0, 0, 255>>>>
        /\ eng.out.px = <<<<0, 0, 0, 0>>, <<50, 0, 0, 255>>, <<0, 0, 0, 0>>>>
     \/ /\ eng.img.px = <<<<0, 0, 0, 255>>, <<40, 29, 7, 0>>, <<0, 0, 0, 255>>>>
        /\ eng.out.px = <<<<0, 0, 0, 0>>, <<40, 29, 7, 0>>, <<0, 0, 0, 0>>>>

\* C34: replace_background yields, for every pixel, the replacement colour
\* where remove_bg made the pixel transparent and the original R, G, B where
\* it left the pixel opaque; every output pixel has alpha 255.
C34_ReplaceBackground ==
  eng.op = "replace_background" =>
    /\ eng.out.res = "ok"
    /\ Len(eng.out.px) = Len(eng.img.px)
    /\ \A i \in 1..Len(eng.img.px) :
         LET removed == simple_bg_removal(eng.img).px[i]
         IN  /\ removed[4] = 0 =>
                  eng.out.px[i] = <<eng.bg_color[1], eng.bg_color[2], eng.bg_color[3], 255>>
             /\ removed[4] = 255 =>
                  eng.out.px[i] = <<eng.img.px[i][1], eng.img.px[i][2], eng.img.px[i][3], 255>>
             /\ removed[4] \in {0, 255}

\* C34 witness: between two black corners a white pixel of alpha 100 was kept
\* and made opaque, the corners became green
C34_Witness ==
  /\ eng.op = "replace_background"
  /\ eng.bg_color = <<0, 255, 0>>
  /\ eng.img.px = <<<<0, 0, 0, 255>>, <<255, 255, 255, 100>>, <<0, 0, 0, 255>>>>
  /\ eng.out.px = <<<<0, 255, 0, 255>>, <<255, 255, 255, 255>>, <<0, 255, 0, 255>>>>

\* channel values a and b differ by at most one step of rounding
WithinRounding(a, b) == a - b \in {-1, 0, 1}

\* C36: the shifted hue handed to the HSV-to-RGB conversion is in [0, 1) for
\* every pixel colour and every hue amount, negative ones included, and a hue
\* amount of 0 returns every pixel's R, G, B unchanged within rounding.
C36_HueInUnitInterval ==
  eng.op = "adjust_hue" =>
    \A i \in 1..Len(eng.img.px) :
      LET new_h == NewHue(eng.img.px[i], eng.amount)
      IN  /\ 0 <= new_h.n
          /\ new_h.n < new_h.d
          /\ eng.amount = 0 =>
               \A ch \in 1..3 : WithinRounding(eng.out.px[i][ch], eng.img.px[i][ch])

\* the image after the adjustment named op when its value v is present, the
\* image itself when it is absent
Adjusted(op, v, img, checks) ==
  IF ~v.some THEN img
  ELSE CASE op = "brightness" -> adjust_brightness(img, v.v, checks)
         [] op = "contrast" -> adjust_contrast(img, v.v)
         [] op = "saturation" -> adjust_saturation(img, v.v)
         [] op = "hue" -> adjust_hue(img, v.v)

\* C35: manual colour grading applies the adjustments that are present in
\* the order brightness, contrast, saturation, hue, each on the output of the
\* previous one, and skips absent ones; alpha is never changed, and with all
\* four absent the output pixels equal the input.
C35_ManualOrder ==
  (eng.op = "color_grade" /\ eng.out.res = "ok") =>
    LET m == eng.m
        input == [res |-> "ok", w |-> eng.img.w, h |-> eng.img.h, px |-> eng.img.px]
        b == Adjusted("brightness", m.brightness, input, eng.checks)
        c == Adjusted("contrast", m.contrast, b, eng.checks)
        s == Adjusted("saturation", m.saturation, c, eng.checks)
        h == Adjusted("hue", m.hue, s, eng.checks)
    IN  /\ eng.out = h
        /\ \A i \in 1..Len(eng.img.px) : eng.out.px[i][4] = eng.img.px[i][4]
        /\ (\A k \in {"hue", "saturation", "brightness", "contrast"} : ~m[k].some)
             => eng.out.px = eng.img.px

\* C35 witness: all four adjustments were applied to a two-pixel image and
\* changed it, alpha excepted
C35_Witness ==
  /\ eng.op = "color_grade"
  /\ eng.out.res = "ok"
  /\ eng.m = [hue |-> Given(30), saturation |-> Given(-50),
              brightness |-> Given(30), contrast |-> Given(40)]
  /\ Len(eng.img.px) = 2
  /\ eng.out.px # eng.img.px
  /\ eng.out # adjust_hue(eng.img, 30)

\* C37: a submission whose Queue.enqueue returned an error leaves no queued
\* job behind: its persisted record is not left in status queued and the
\* Status Store keeps no Queued entry for it.
C37_ErrorLeavesNoQueuedJob ==
  \A r \in Ids :
    (req[r].pc = "err" /\ jobs[r].exists) =>
      /\ jobs[r].status # "queued"
      /\ statuses[r].st # "Queued"

\* C38: for every Lut3D that from_cube accepts, files declaring LUT_3D_SIZE 0
\* or 1 included, apply_to_image computes size - 1 without underflow and every
\* index r + g*size + b*size*size it computes is smaller than the number of
\* entries, for all channel values.
C38_IndexInBounds ==
  (eng.op = "from_cube" /\ eng.out.res = "ok") =>
     /\ eng.out.size >= 1
     /\ eng.out.entries >= 1
     /\ \A r, g, b \in Samples :
          index(eng.out.size, Lattice(r, eng.out.size), Lattice(g, eng.out.size),
                Lattice(b, eng.out.size)) < eng.out.entries

\* C39: in the persisted job record progress_percent is 100 exactly when
\* status is completed: Job::create and the update at dequeue write 0,
\* Job::complete writes 100 together with the result location, and Job::fail
\* leaves progress_percent and the result location as they were.
C39_HundredIffCompleted ==
  [][\A j \in Ids :
       /\ jobs'[j].exists =>
            (jobs'[j].progress_percent = 100 <=> jobs'[j].status = "completed")
       /\ (~jobs[j].exists /\ jobs'[j].exists) =>
            (jobs'[j].status = "queued" /\ jobs'[j].progress_percent = 0)
       /\ (jobs[j].exists /\ jobs'[j] # jobs[j]) =>
            /\ jobs'[j].status \in {"processing", "completed", "failed"}
            /\ jobs'[j].status = "processing" => jobs'[j].progress_percent = 0
            /\ jobs'[j].status = "completed" =>
                 (jobs'[j].progress_percent = 100 /\ jobs'[j].has_result)
            /\ jobs'[j].status = "failed" =>
                 /\ jobs'[j].progress_percent = jobs[j].progress_percent
                 /\ jobs'[j].has_result = jobs[j].has_result]_vars

\* C39 witness: one record is completed at 100 with its result, another one
\* is failed at 0 without one
C39_Witness ==
  \E j, k \in Ids :
    /\ jobs[j].exists /\ jobs[j].status = "completed"
    /\ jobs[j].progress_percent = 100 /\ jobs[j].has_result
    /\ jobs[k].exists /\ jobs[k].status = "failed"
    /\ jobs[k].progress_percent = 0 /\ ~jobs[k].has_result

\* C40: the worker leaves its loop only from the receive, when every sender
\* has been dropped and the buffer is empty, and by then every job that was
\* sent has reached a terminal state; a job still buffered after the last
\* sender is dropped finds the worker alive.
C40_DrainThenExit ==
  [][/\ wpc' = "exited" =>
          /\ wpc \in {"recv", "exited"}
          /\ ~senders
          /\ chan = <<>>
          /\ \A j \in Ids : req[j].pc = "ok" => statuses[j].st \in Terminal
     /\ (~senders' /\ chan' # <<>>) => wpc' # "panicked"]_vars

====
